---- MODULE Spec2Model ----
(***************************************************************************)
(* Model of the Aadhaar data-cleaning and analysis pipeline                *)
(* (src/src/preprocessing.py, src/src/analysis.py).                        *)
(*                                                                         *)
(* A table (pandas DataFrame) is a record [cols, rows]: cols is the set of *)
(* column names, rows the sequence of rows in order, each row a record     *)
(* [idx, cells] with its index label and a function from column name to    *)
(* cell.  A cell is a record whose field t is the kind of value ("str",    *)
(* "int", "float", "date", "null"); s holds the characters of a string, n  *)
(* the number, and y, m, d a date.  A string is a sequence of              *)
(* one-character strings, so that trimming, title-casing and pattern       *)
(* matching are computed character by character as the library does.       *)
(* Input strings are drawn from printable ASCII plus blank and tab.        *)
(***************************************************************************)
EXTENDS Integers, Sequences, FiniteSets, TLC

VARIABLES
  raw,      \* the table handed to the program by the caller
  df,       \* the table held by the running function or pipeline
  last,     \* name of the last stage that ran ("none" before the first)
  raised,   \* TRUE once a stage has raised an exception
  mode,     \* "call" (one stage called directly) or the pipeline that runs
  pc,       \* the next stage of the running pipeline
  trace,    \* the stages that have run, in order
  prefix,   \* the prefix argument of the last add_update_totals (else empty)
  enrol_in, demo_in, bio_in,   \* inputs of comparative_state_metrics
  merged,   \* its result (the empty sequence before it has run)
  returned, \* the table returned by the last analysis function
  state_name_map,  \* the alias table the module holds (STATE_NAME_MAP)
  hotspots, coldspots,  \* the results of identify_hotspots / identify_coldspots
  arg       \* the argument given to each analysis function that has run

vars == <<raw, df, last, raised, mode, pc, trace, prefix, enrol_in, demo_in, bio_in, merged,
          returned, hotspots, coldspots, arg, state_name_map>>

----------------------------------------------------------------------------
\* Bounds of the model

\* longest table drawn as an input
MaxRows == 2

\* longest series of values drawn as the input of a statistic
MaxLen == 4

----------------------------------------------------------------------------
\* Characters and strings

Lowers == <<"a","b","c","d","e","f","g","h","i","j","k","l","m",
            "n","o","p","q","r","s","t","u","v","w","x","y","z">>
Uppers == <<"A","B","C","D","E","F","G","H","I","J","K","L","M",
            "N","O","P","Q","R","S","T","U","V","W","X","Y","Z">>
Digits == <<"0","1","2","3","4","5","6","7","8","9">>

IsLower(c) == \E i \in 1..26 : Lowers[i] = c
IsUpper(c) == \E i \in 1..26 : Uppers[i] = c
IsAlpha(c) == IsLower(c) \/ IsUpper(c)
\* the regular expression class \d
IsDigit(c) == \E i \in 1..10 : Digits[i] = c
\* the characters str.strip() removes
IsSpace(c) == c \in {" ", "\t", "\n", "\r"}

ToLower(c) == IF IsUpper(c) THEN Lowers[CHOOSE i \in 1..26 : Uppers[i] = c] ELSE c
ToUpper(c) == IF IsLower(c) THEN Uppers[CHOOSE i \in 1..26 : Lowers[i] = c] ELSE c
DigitVal(c) == (CHOOSE i \in 1..10 : Digits[i] = c) - 1

SetMin(S) == CHOOSE x \in S : \A y \in S : x <= y
SetMax(S) == CHOOSE x \in S : \A y \in S : x >= y

\* str.strip(): leading and trailing whitespace removed
Strip(s) ==
  LET keep == {i \in 1..Len(s) : ~IsSpace(s[i])}
  IN IF keep = {} THEN <<>> ELSE SubSeq(s, SetMin(keep), SetMax(keep))

\* str.title(): a letter that follows a non-letter (or starts the string) is
\* upper-cased, every other letter lower-cased
Title(s) ==
  [i \in 1..Len(s) |->
     IF IsAlpha(s[i])
       THEN IF i = 1 \/ ~IsAlpha(s[i-1]) THEN ToUpper(s[i]) ELSE ToLower(s[i])
       ELSE s[i]]

LowerStr(s) == [i \in 1..Len(s) |-> ToLower(s[i])]
UpperStr(s) == [i \in 1..Len(s) |-> ToUpper(s[i])]

\* str(n) of a non-negative integer
RECURSIVE IntToStr(_)
IntToStr(n) ==
  IF n < 10 THEN <<Digits[n + 1]>>
  ELSE Append(IntToStr(n \div 10), Digits[(n % 10) + 1])

\* value of a non-empty string of digits
RECURSIVE StrToInt(_)
StrToInt(s) ==
  IF Len(s) = 0 THEN 0
  ELSE 10 * StrToInt(SubSeq(s, 1, Len(s) - 1)) + DigitVal(s[Len(s)])

----------------------------------------------------------------------------
\* Cells

Cell(t, s, n, y, m, d) == [t |-> t, s |-> s, n |-> n, y |-> y, m |-> m, d |-> d]

\* NaN, None, NaT
Null           == Cell("null", <<>>, 0, 0, 0, 0)
StrC(s)        == Cell("str", s, 0, 0, 0, 0)
IntC(n)        == Cell("int", <<>>, n, 0, 0, 0)
\* the float n.0
FloatC(n)      == Cell("float", <<>>, n, 0, 0, 0)
\* a Timestamp at midnight of the day
DateC(y, m, d) == Cell("date", <<>>, 0, y, m, d)

IsNull(c) == c.t = "null"

Pad2(n) == IF n < 10 THEN <<"0">> \o IntToStr(n) ELSE IntToStr(n)
Pad4(n) == IF n < 10 THEN <<"0","0","0">> \o IntToStr(n)
           ELSE IF n < 100 THEN <<"0","0">> \o IntToStr(n)
           ELSE IF n < 1000 THEN <<"0">> \o IntToStr(n)
           ELSE IntToStr(n)

\* astype(str) of one cell
AsStr(c) ==
  CASE c.t = "str"   -> c.s
    [] c.t = "int"   -> IntToStr(c.n)
    [] c.t = "float" -> IntToStr(c.n) \o <<".","0">>
    [] c.t = "date"  -> Pad4(c.y) \o <<"-">> \o Pad2(c.m) \o <<"-">> \o Pad2(c.d)
    [] c.t = "null"  -> <<"n","a","n">>

STATE_NAME_MAP ==
  \* 'Andaman And Nicobar Islands': 'Andaman & Nicobar'
  (<<"A","n","d","a","m","a","n"," ","A","n","d"," ","N","i","c","o","b","a","r"," ","I","s","l","a","n","d","s">>
     :> <<"A","n","d","a","m","a","n"," ","&"," ","N","i","c","o","b","a","r">>)
  \* 'Andaman and Nicobar Islands': 'Andaman & Nicobar'
  @@ (<<"A","n","d","a","m","a","n"," ","a","n","d"," ","N","i","c","o","b","a","r"," ","I","s","l","a","n","d","s">>
     :> <<"A","n","d","a","m","a","n"," ","&"," ","N","i","c","o","b","a","r">>)
  \* 'Andhra Pradesh': 'Andhra Pradesh'
  @@ (<<"A","n","d","h","r","a"," ","P","r","a","d","e","s","h">>
     :> <<"A","n","d","h","r","a"," ","P","r","a","d","e","s","h">>)
  \* 'Andhra pradesh': 'Andhra Pradesh'
  @@ (<<"A","n","d","h","r","a"," ","p","r","a","d","e","s","h">>
     :> <<"A","n","d","h","r","a"," ","P","r","a","d","e","s","h">>)
  \* 'Dadra And Nagar Haveli': 'Dadra & Nagar Haveli'
  @@ (<<"D","a","d","r","a"," ","A","n","d"," ","N","a","g","a","r"," ","H","a","v","e","l","i">>
     :> <<"D","a","d","r","a"," ","&"," ","N","a","g","a","r"," ","H","a","v","e","l","i">>)
  \* 'Dadra and Nagar Haveli': 'Dadra & Nagar Haveli'
  @@ (<<"D","a","d","r","a"," ","a","n","d"," ","N","a","g","a","r"," ","H","a","v","e","l","i">>
     :> <<"D","a","d","r","a"," ","&"," ","N","a","g","a","r"," ","H","a","v","e","l","i">>)
  \* 'Dadra And Nagar Haveli And Daman And Diu': 'Dadra & Nagar Haveli and Daman & Diu'
  @@ (<<"D","a","d","r","a"," ","A","n","d"," ","N","a","g","a","r"," ","H","a","v","e","l","i"," ","A","n","d"," ","D","a","m","a","n"," ","A","n","d"," ","D","i","u">>
     :> <<"D","a","d","r","a"," ","&"," ","N","a","g","a","r"," ","H","a","v","e","l","i"," ","a","n","d"," ","D","a","m","a","n"," ","&"," ","D","i","u">>)
  \* 'The Dadra And Nagar Haveli And Daman And Diu': 'Dadra & Nagar Haveli and Daman & Diu'
  @@ (<<"T","h","e"," ","D","a","d","r","a"," ","A","n","d"," ","N","a","g","a","r"," ","H","a","v","e","l","i"," ","A","n","d"," ","D","a","m","a","n"," ","A","n","d"," ","D","i","u">>
     :> <<"D","a","d","r","a"," ","&"," ","N","a","g","a","r"," ","H","a","v","e","l","i"," ","a","n","d"," ","D","a","m","a","n"," ","&"," ","D","i","u">>)
  \* 'Daman And Diu': 'Daman & Diu'
  @@ (<<"D","a","m","a","n"," ","A","n","d"," ","D","i","u">>
     :> <<"D","a","m","a","n"," ","&"," ","D","i","u">>)
  \* 'Daman and Diu': 'Daman & Diu'
  @@ (<<"D","a","m","a","n"," ","a","n","d"," ","D","i","u">>
     :> <<"D","a","m","a","n"," ","&"," ","D","i","u">>)
  \* 'Jammu And Kashmir': 'Jammu & Kashmir'
  @@ (<<"J","a","m","m","u"," ","A","n","d"," ","K","a","s","h","m","i","r">>
     :> <<"J","a","m","m","u"," ","&"," ","K","a","s","h","m","i","r">>)
  \* 'Jammu and Kashmir': 'Jammu & Kashmir'
  @@ (<<"J","a","m","m","u"," ","a","n","d"," ","K","a","s","h","m","i","r">>
     :> <<"J","a","m","m","u"," ","&"," ","K","a","s","h","m","i","r">>)
  \* 'Orissa': 'Odisha'
  @@ (<<"O","r","i","s","s","a">>
     :> <<"O","d","i","s","h","a">>)
  \* 'ODISHA': 'Odisha'
  @@ (<<"O","D","I","S","H","A">>
     :> <<"O","d","i","s","h","a">>)
  \* 'Pondicherry': 'Puducherry'
  @@ (<<"P","o","n","d","i","c","h","e","r","r","y">>
     :> <<"P","u","d","u","c","h","e","r","r","y">>)
  \* 'West Bangal': 'West Bengal'
  @@ (<<"W","e","s","t"," ","B","a","n","g","a","l">>
     :> <<"W","e","s","t"," ","B","e","n","g","a","l">>)
  \* 'Westbengal': 'West Bengal'
  @@ (<<"W","e","s","t","b","e","n","g","a","l">>
     :> <<"W","e","s","t"," ","B","e","n","g","a","l">>)
  \* 'West bengal': 'West Bengal'
  @@ (<<"W","e","s","t"," ","b","e","n","g","a","l">>
     :> <<"W","e","s","t"," ","B","e","n","g","a","l">>)
  \* 'WEST BENGAL': 'West Bengal'
  @@ (<<"W","E","S","T"," ","B","E","N","G","A","L">>
     :> <<"W","e","s","t"," ","B","e","n","g","a","l">>)
  \* 'WESTBENGAL': 'West Bengal'
  @@ (<<"W","E","S","T","B","E","N","G","A","L">>
     :> <<"W","e","s","t"," ","B","e","n","g","a","l">>)
  \* 'West  Bengal': 'West Bengal'
  @@ (<<"W","e","s","t"," "," ","B","e","n","g","a","l">>
     :> <<"W","e","s","t"," ","B","e","n","g","a","l">>)

\* the characters of each column name
ColText ==
  [date |-> <<"d","a","t","e">>,
   state |-> <<"s","t","a","t","e">>,
   district |-> <<"d","i","s","t","r","i","c","t">>,
   pincode |-> <<"p","i","n","c","o","d","e">>,
   age_0_5 |-> <<"a","g","e","_","0","_","5">>,
   age_5_17 |-> <<"a","g","e","_","5","_","1","7">>,
   age_18_greater |-> <<"a","g","e","_","1","8","_","g","r","e","a","t","e","r">>,
   demo_age_5_17 |-> <<"d","e","m","o","_","a","g","e","_","5","_","1","7">>,
   demo_age_17_ |-> <<"d","e","m","o","_","a","g","e","_","1","7","_">>,
   bio_age_5_17 |-> <<"b","i","o","_","a","g","e","_","5","_","1","7">>,
   bio_age_17_ |-> <<"b","i","o","_","a","g","e","_","1","7","_">>,
   total_enrolments |-> <<"t","o","t","a","l","_","e","n","r","o","l","m","e","n","t","s">>,
   total_updates |-> <<"t","o","t","a","l","_","u","p","d","a","t","e","s">>,
   year |-> <<"y","e","a","r">>,
   month |-> <<"m","o","n","t","h">>,
   quarter |-> <<"q","u","a","r","t","e","r">>,
   day_of_week |-> <<"d","a","y","_","o","f","_","w","e","e","k">>,
   month_name |-> <<"m","o","n","t","h","_","n","a","m","e">>,
   week |-> <<"w","e","e","k">>]

\* .dt.month_name()
MonthNames == <<
  <<"J","a","n","u","a","r","y">>,
  <<"F","e","b","r","u","a","r","y">>,
  <<"M","a","r","c","h">>,
  <<"A","p","r","i","l">>,
  <<"M","a","y">>,
  <<"J","u","n","e">>,
  <<"J","u","l","y">>,
  <<"A","u","g","u","s","t">>,
  <<"S","e","p","t","e","m","b","e","r">>,
  <<"O","c","t","o","b","e","r">>,
  <<"N","o","v","e","m","b","e","r">>,
  <<"D","e","c","e","m","b","e","r">>>>

\* input strings
S_Kerala == <<"K","e","r","a","l","a">>  \* 'Kerala'
S_tamil_nadu == <<"t","a","m","i","l"," ","n","a","d","u">>  \* 'tamil nadu'
S_123 == <<"1","2","3">>  \* '123'
S_100000 == <<"1","0","0","0","0","0">>  \* '100000'
S_pad123 == <<" ","1","2","3">>  \* ' 123'
S_pad12 == <<" ","1","2"," ">>  \* ' 12 '
S_Pune == <<"P","u","n","e">>  \* 'Pune'
P_110001 == <<"1","1","0","0","0","1">>  \* '110001'
P_123 == <<"1","2","3">>  \* '123'
P_abcdef == <<"a","b","c","d","e","f">>  \* 'abcdef'
P_1100012 == <<"1","1","0","0","0","1","2">>  \* '1100012'
P_pad110001 == <<" ","1","1","0","0","0","1"," ">>  \* ' 110001 '
P_11000a == <<"1","1","0","0","0","a">>  \* '11000a'
P_000000 == <<"0","0","0","0","0","0">>  \* '000000'
P_11_001 == <<"1","1","0"," ","0","1">>  \* '110 01'
D_invalid == <<"i","n","v","a","l","i","d">>  \* 'invalid'
D_ymd_slash == <<"2","0","2","3","/","0","1","/","0","1">>  \* '2023/01/01'
D_ymd_dash == <<"2","0","2","3","-","0","1","-","0","1">>  \* '2023-01-01'
D_short_year == <<"0","1","-","0","1","-","2","3">>  \* '01-01-23'
D_blank_day == <<" ","1","-","0","1","-","2","0","2","3">>  \* ' 1-01-2023'
D_trailing == <<"0","1","-","0","1","-","2","0","2","3"," ">>  \* '01-01-2023 '
D_01_01_2023 == <<"0","1","-","0","1","-","2","0","2","3">>  \* '01-01-2023'
D_29_02_2024 == <<"2","9","-","0","2","-","2","0","2","4">>  \* '29-02-2024'
D_31_12_2024 == <<"3","1","-","1","2","-","2","0","2","4">>  \* '31-12-2024'
D_15_07_2024 == <<"1","5","-","0","7","-","2","0","2","4">>  \* '15-07-2024'
----------------------------------------------------------------------------
\* Tables

ColNames == DOMAIN ColText

EmptyTable == [cols |-> {}, rows |-> <<>>]

Column(tbl, col) == [i \in 1..Len(tbl.rows) |-> tbl.rows[i].cells[col]]

\* df[col] = f(df[col]), cell by cell
MapCol(tbl, col, f(_)) ==
  [tbl EXCEPT !.rows =
     [i \in 1..Len(tbl.rows) |-> [tbl.rows[i] EXCEPT !.cells[col] = f(@)]]]

\* df[mask]: the rows that satisfy keep, in order, with their index labels
FilterRows(tbl, keep(_)) == [tbl EXCEPT !.rows = SelectSeq(tbl.rows, keep)]

\* df[col] = value(row), adding the column when it is absent
SetCol(tbl, col, value(_)) ==
  [cols |-> tbl.cols \cup {col},
   rows |-> [i \in 1..Len(tbl.rows) |->
               [idx   |-> tbl.rows[i].idx,
                cells |-> [c \in tbl.cols \cup {col} |->
                             IF c = col THEN value(tbl.rows[i])
                             ELSE tbl.rows[i].cells[c]]]]]

\* str.startswith
StartsWith(s, p) == Len(p) <= Len(s) /\ SubSeq(s, 1, Len(p)) = p

----------------------------------------------------------------------------
\* parse_dates: pd.to_datetime(format='%d-%m-%Y', errors='coerce')

IsLeap(y) == (y % 4 = 0 /\ y % 100 # 0) \/ y % 400 = 0

DaysInMonth(y, m) ==
  IF m = 2 THEN (IF IsLeap(y) THEN 29 ELSE 28)
  ELSE IF m \in {4, 6, 9, 11} THEN 30 ELSE 31

AllDigits(s) == \A i \in 1..Len(s) : IsDigit(s[i])

\* a day of exactly two digits
DayToken_two_digits(p) == Len(p) = 2 /\ AllDigits(p) /\ StrToInt(p) \in 1..31

\* %d : 3[0-1]|[1-2]\d|0[1-9]|[1-9]| [1-9]
DayToken(p) ==
  \/ Len(p) = 2 /\ AllDigits(p) /\ StrToInt(p) \in 1..31
  \/ Len(p) = 1 /\ AllDigits(p) /\ StrToInt(p) \in 1..9
  \/ Len(p) = 2 /\ p[1] = " " /\ IsDigit(p[2]) /\ DigitVal(p[2]) \in 1..9

\* %m : 1[0-2]|0[1-9]|[1-9]
MonthToken(p) ==
  \/ Len(p) = 2 /\ AllDigits(p) /\ StrToInt(p) \in 1..12
  \/ Len(p) = 1 /\ AllDigits(p) /\ StrToInt(p) \in 1..9

\* %Y : \d\d\d\d
YearToken(p) == Len(p) = 4 /\ AllDigits(p)

\* one string against the format; Null is NaT
Strptime(s) ==
  LET dashes == {i \in 1..Len(s) : s[i] = "-"}
  IN IF Cardinality(dashes) # 2 THEN Null
     ELSE LET i  == SetMin(dashes)
              j  == SetMax(dashes)
              dp == SubSeq(s, 1, i - 1)
              mp == SubSeq(s, i + 1, j - 1)
              yp == SubSeq(s, j + 1, Len(s))
          IN IF DayToken(dp) /\ MonthToken(mp) /\ YearToken(yp)
               THEN LET d == StrToInt(Strip(dp))
                        m == StrToInt(mp)
                        y == StrToInt(yp)
                    IN IF y >= 1 /\ d <= DaysInMonth(y, m) THEN DateC(y, m, d) ELSE Null
               ELSE Null

ToDatetime(c) ==
  CASE c.t = "str"  -> Strptime(c.s)
    [] c.t = "date" -> c
    [] OTHER        -> Null

parse_dates(tbl) == MapCol(tbl, "date", ToDatetime)

----------------------------------------------------------------------------
\* validate_pincode

\* the pattern without its end anchor
MatchSixDigits_unanchored(s) == Len(s) >= 6 /\ AllDigits(SubSeq(s, 1, 6))

\* str.match(r'^\d{6}$') on a trimmed string
MatchSixDigits(s) == Len(s) = 6 /\ AllDigits(s)

validate_pincode(tbl) ==
  LET trimmed == MapCol(tbl, "pincode", LAMBDA c : StrC(Strip(AsStr(c))))
  IN FilterRows(trimmed, LAMBDA r : MatchSixDigits(r.cells["pincode"].s))

----------------------------------------------------------------------------
\* normalize_state_names

\* str.match(r'^\d+$')
MatchNumeric(s) == Len(s) >= 1 /\ AllDigits(s)

\* Series.replace(STATE_NAME_MAP): whole values that are keys are replaced
ReplaceAlias(s) == IF s \in DOMAIN state_name_map THEN state_name_map[s] ELSE s

NormalizeName(c) == StrC(ReplaceAlias(Title(ReplaceAlias(Strip(AsStr(c))))))

\* the numeric filter applied after trimming instead of before
normalize_state_names_trim_first(tbl) ==
  LET kept == FilterRows(tbl, LAMBDA r : ~MatchNumeric(Strip(AsStr(r.cells["state"]))))
  IN MapCol(kept, "state", NormalizeName)

normalize_state_names(tbl) ==
  LET kept == FilterRows(tbl, LAMBDA r : ~MatchNumeric(AsStr(r.cells["state"])))
  IN MapCol(kept, "state", NormalizeName)

----------------------------------------------------------------------------
\* remove_invalid_records

RequiredCols == {"date", "state", "district", "pincode"}

\* the district left out of the required columns
remove_invalid_records_no_district(tbl) ==
  LET existing_required == (RequiredCols \ {"district"}) \cap tbl.cols
  IN FilterRows(tbl, LAMBDA r : \A c \in existing_required : ~IsNull(r.cells[c]))

remove_invalid_records(tbl) ==
  LET existing_required == RequiredCols \cap tbl.cols
  IN FilterRows(tbl, LAMBDA r : \A c \in existing_required : ~IsNull(r.cells[c]))

----------------------------------------------------------------------------
\* add_enrolment_totals, add_update_totals

\* the number in column k of the cells c, a null counting as 0
Count(c, k) == IF IsNull(c[k]) THEN 0 ELSE c[k].n

AgeCols == {"age_0_5", "age_5_17", "age_18_greater"}

RECURSIVE SumCells(_, _)
\* DataFrame.sum(axis=1) over the columns cs of one row: nulls are skipped
SumCells(row, cs) ==
  IF cs = {} THEN 0
  ELSE LET c == CHOOSE x \in cs : TRUE
       IN (IF IsNull(row.cells[c]) THEN 0 ELSE row.cells[c].n)
          + SumCells(row, cs \ {c})

\* a total already present is kept
add_enrolment_totals_keep_existing(tbl) ==
  IF AgeCols \subseteq tbl.cols /\ "total_enrolments" \notin tbl.cols
    THEN SetCol(tbl, "total_enrolments", LAMBDA r : IntC(SumCells(r, AgeCols)))
    ELSE tbl

add_enrolment_totals(tbl) ==
  IF AgeCols \subseteq tbl.cols
    THEN SetCol(tbl, "total_enrolments", LAMBDA r : IntC(SumCells(r, AgeCols)))
    ELSE tbl

UpdateCols(tbl, pfx) == {c \in tbl.cols : StartsWith(ColText[c], pfx)}

add_update_totals(tbl, pfx) ==
  IF UpdateCols(tbl, pfx) # {}
    THEN SetCol(tbl, "total_updates",
                LAMBDA r : IntC(SumCells(r, UpdateCols(tbl, pfx))))
    ELSE tbl

DemoPrefix == <<"d","e","m","o">>
BioPrefix  == <<"b","i","o">>

----------------------------------------------------------------------------
\* add_temporal_features

DaysBeforeMonth(y, m) ==
  LET S[k \in 0..12] == IF k = 0 THEN 0 ELSE S[k - 1] + DaysInMonth(y, k)
  IN S[m - 1]

DayOfYear(dt) == DaysBeforeMonth(dt.y, dt.m) + dt.d

\* proleptic Gregorian ordinal; day 1 is Monday 0001-01-01
Ordinal(dt) ==
  LET p == dt.y - 1
  IN p * 365 + (p \div 4) - (p \div 100) + (p \div 400) + DayOfYear(dt)

\* the day of the week counted from Sunday
DayOfWeek_from_sunday(dt) == Ordinal(dt) % 7

\* .dt.dayofweek: Monday is 0, Sunday is 6
DayOfWeek(dt) == (Ordinal(dt) + 6) % 7

\* .dt.quarter
Quarter(dt) == ((dt.m - 1) \div 3) + 1

\* .dt.isocalendar().week
IsoWeek(dt) ==
  LET dow == DayOfWeek(dt)
      est == (DayOfYear(dt) - 1) - dow + 3
  IN IF est < 0
       THEN (IF est > -2 \/ (est = -2 /\ IsLeap(dt.y - 1)) THEN 53 ELSE 52)
       ELSE LET w == (est \div 7) + 1
            IN IF w = 53 /\ 31 - dt.d + dow < 3 THEN 1 ELSE w

\* the .dt accessor needs a parsed date column, and the cast of the ISO
\* week to int fails on a missing date
TemporalRaises(tbl) ==
  \/ "date" \notin tbl.cols
  \/ \E i \in 1..Len(tbl.rows) : tbl.rows[i].cells["date"].t # "date"

add_temporal_features(tbl) ==
  LET t1 == SetCol(tbl, "year", LAMBDA r : IntC(r.cells["date"].y))
      t2 == SetCol(t1, "month", LAMBDA r : IntC(r.cells["date"].m))
      t3 == SetCol(t2, "quarter", LAMBDA r : IntC(Quarter(r.cells["date"])))
      t4 == SetCol(t3, "day_of_week", LAMBDA r : IntC(DayOfWeek(r.cells["date"])))
      t5 == SetCol(t4, "month_name", LAMBDA r : StrC(MonthNames[r.cells["date"].m]))
  IN SetCol(t5, "week", LAMBDA r : IntC(IsoWeek(r.cells["date"])))

\* the index labels left as the filters left them
reset_index_keep(tbl) == tbl

\* reset_index(drop=True)
reset_index(tbl) ==
  [tbl EXCEPT !.rows = [i \in 1..Len(tbl.rows) |-> [tbl.rows[i] EXCEPT !.idx = i - 1]]]

----------------------------------------------------------------------------
\* comparative_state_metrics

\* a float that is NaN, or the quotient num / den (den = 0: a division by zero)
NaN          == [nan |-> TRUE, num |-> 0, den |-> 1]
Quot(n, d)   == [nan |-> FALSE, num |-> n, den |-> d]

\* the division without the replacement of a zero denominator
Divide_keeping_zero(n, d) == Quot(n, d)

\* Series.replace(0, np.nan) on one value, then numerator / value
DivideReplacingZero(n, d) == IF d = 0 THEN NaN ELSE Quot(n, d)

\* the groups of groupby('state'): rows with a null state form no group
GroupKeys(tbl) ==
  {tbl.rows[i].cells["state"] : i \in 1..Len(tbl.rows)} \ {Null}

\* groupby('state')[col].sum() for one group
GroupSum(tbl, col, st) ==
  LET S[k \in 0..Len(tbl.rows)] ==
        IF k = 0 THEN 0
        ELSE S[k - 1] + (IF tbl.rows[k].cells["state"] = st /\ ~IsNull(tbl.rows[k].cells[col])
                           THEN tbl.rows[k].cells[col].n ELSE 0)
  IN S[Len(tbl.rows)]

\* the states the inner joins of the three aggregates would keep
MergedStates_inner(enrolment, demographic, biometric) ==
  GroupKeys(enrolment) \cap GroupKeys(demographic) \cap GroupKeys(biometric)

\* the states of the two outer joins on 'state'
MergedStates(enrolment, demographic, biometric) ==
  GroupKeys(enrolment) \cup GroupKeys(demographic) \cup GroupKeys(biometric)

\* one row of the merged table, after fillna(0) and the derived columns
MergedRow(enrolment, demographic, biometric, st) ==
  LET enrolments   == IF st \in GroupKeys(enrolment)
                        THEN GroupSum(enrolment, "total_enrolments", st) ELSE 0
      demo_updates == IF st \in GroupKeys(demographic)
                        THEN GroupSum(demographic, "total_updates", st) ELSE 0
      bio_updates  == IF st \in GroupKeys(biometric)
                        THEN GroupSum(biometric, "total_updates", st) ELSE 0
  IN [state |-> st,
      enrolments |-> enrolments,
      demo_updates |-> demo_updates,
      bio_updates |-> bio_updates,
      demo_to_enrol_ratio |-> DivideReplacingZero(demo_updates, enrolments),
      bio_to_enrol_ratio |-> DivideReplacingZero(bio_updates, enrolments),
      total_activity |-> enrolments + demo_updates + bio_updates]

\* the orders sort_values('total_activity', ascending=False) may return:
\* rows of equal activity come in any order
SortedByActivity(rowset) ==
  {q \in [1..Cardinality(rowset) -> rowset] :
     /\ \A i, j \in DOMAIN q : i # j => q[i] # q[j]
     /\ \A i, j \in DOMAIN q : i < j => q[i].total_activity >= q[j].total_activity}

\* the tables comparative_state_metrics may return
comparative_state_metrics(enrolment, demographic, biometric) ==
  SortedByActivity(
    {MergedRow(enrolment, demographic, biometric, st) :
       st \in MergedStates(enrolment, demographic, biometric)})

----------------------------------------------------------------------------
\* Floating-point values of the statistics: NaN or an exact fraction num / den

FloatOf(c) == IF IsNull(c) THEN NaN ELSE Quot(c.n, 1)

\* the same fraction with a positive denominator
Pos(x) == IF x.nan \/ x.den >= 0 THEN x ELSE Quot(-x.num, -x.den)

Add(x, y) == IF x.nan \/ y.nan THEN NaN ELSE Quot(x.num * y.den + y.num * x.den, x.den * y.den)
Sub(x, y) == IF x.nan \/ y.nan THEN NaN ELSE Quot(x.num * y.den - y.num * x.den, x.den * y.den)
Mul(x, y) == IF x.nan \/ y.nan THEN NaN ELSE Quot(x.num * y.num, x.den * y.den)

\* x < y and x <= y; a comparison with NaN is False
Lt(x, y) == ~x.nan /\ ~y.nan /\ Pos(x).num * Pos(y).den < Pos(y).num * Pos(x).den
Le(x, y) == ~x.nan /\ ~y.nan /\ Pos(x).num * Pos(y).den <= Pos(y).num * Pos(x).den

\* n / d on floats: 0 / 0 is NaN, and n / 0 is infinite (den = 0)
FloatDiv(n, d) == IF d = 0 /\ n = 0 THEN NaN ELSE Quot(n, d)

\* the non-null numbers of a column, in row order
Numbers(col) ==
  LET kept == SelectSeq(col, LAMBDA c : ~IsNull(c))
  IN [i \in 1..Len(kept) |-> kept[i].n]

\* the k-th smallest of the numbers xs, k from 1
OrderStat(xs, k) ==
  CHOOSE v \in {xs[i] : i \in DOMAIN xs} :
    /\ Cardinality({i \in DOMAIN xs : xs[i] < v}) < k
    /\ Cardinality({i \in DOMAIN xs : xs[i] <= v}) >= k

\* the quantile taken at the order statistic below the position
quantile_lower(col, qn, qd) ==
  LET xs == Numbers(col)
      n  == Len(xs)
  IN IF n = 0 THEN NaN ELSE Quot(OrderStat(xs, (((n - 1) * qn) \div qd) + 1), 1)

\* Series.quantile(qn / qd): nulls are skipped, the position (n - 1) * q is
\* interpolated linearly between the two order statistics around it, and
\* the quantile of no number is NaN
quantile(col, qn, qd) ==
  LET xs  == Numbers(col)
      n   == Len(xs)
      lo  == ((n - 1) * qn) \div qd
      rem == ((n - 1) * qn) % qd
      a   == OrderStat(xs, lo + 1)
      b   == OrderStat(xs, IF lo + 2 <= n THEN lo + 2 ELSE n)
  IN IF n = 0 THEN NaN ELSE Quot(a * qd + (b - a) * rem, qd)

----------------------------------------------------------------------------
\* detect_anomalies_iqr, detect_anomalies_zscore

\* the labels of the rows by the bounds, 'high' where 'low' is expected
anomaly_type_swapped(v, lower_bound, upper_bound) ==
  IF Lt(v, lower_bound) THEN "high" ELSE IF Lt(upper_bound, v) THEN "low" ELSE "normal"

\* np.where(v < lower_bound, 'low', np.where(v > upper_bound, 'high', 'normal'))
anomaly_type(v, lower_bound, upper_bound) ==
  IF Lt(v, lower_bound) THEN "low" ELSE IF Lt(upper_bound, v) THEN "high" ELSE "normal"

\* the rows of df with the columns is_anomaly and anomaly_type; value is
\* the cell of value_col, and the other columns are carried unchanged
detect_anomalies_iqr(tbl, value_col, multiplier) ==
  LET Q1  == quantile(Column(tbl, value_col), 1, 4)
      Q3  == quantile(Column(tbl, value_col), 3, 4)
      IQR == Sub(Q3, Q1)
      lower_bound == Sub(Q1, Mul(multiplier, IQR))
      upper_bound == Add(Q3, Mul(multiplier, IQR))
  IN [cols |-> tbl.cols \cup {"is_anomaly", "anomaly_type"},
      rows |-> [i \in 1..Len(tbl.rows) |->
                  LET v == FloatOf(tbl.rows[i].cells[value_col])
                  IN [idx |-> tbl.rows[i].idx,
                      value |-> tbl.rows[i].cells[value_col],
                      is_anomaly |-> Lt(v, lower_bound) \/ Lt(upper_bound, v),
                      anomaly_type |-> anomaly_type(v, lower_bound, upper_bound)]]]

\* the score taken with the sample standard deviation (ddof = 1)
zscore_sample(xs, i) ==
  LET n  == Len(xs)
      S[k \in 0..n]  == IF k = 0 THEN 0 ELSE S[k - 1] + xs[k]
      SS[k \in 0..n] == IF k = 0 THEN 0 ELSE SS[k - 1] + xs[k] * xs[k]
  IN FloatDiv((n * xs[i] - S[n]) * (n * xs[i] - S[n]) * (n - 1),
              n * (n * SS[n] - S[n] * S[n]))

\* the score taken with the mean absolute deviation in place of the
\* standard deviation
zscore_mean_deviation(xs, i) ==
  LET n  == Len(xs)
      S[k \in 0..n] == IF k = 0 THEN 0 ELSE S[k - 1] + xs[k]
      Abs(v) == IF v < 0 THEN -v ELSE v
      D[k \in 0..n] == IF k = 0 THEN 0 ELSE D[k - 1] + Abs(n * xs[k] - S[n])
  IN FloatDiv((n * xs[i] - S[n]) * (n * xs[i] - S[n]) * n * n, D[n] * D[n])

\* the z-scores of a column of equal values taken as 0
zscore_constant_zero(xs, i) == Quot(0, 1)

\* the square of np.abs(stats.zscore(xs))[i]: (x - mean)^2 / variance with
\* the population variance; 0 / 0, the score in a column of equal values,
\* is NaN
zscore(xs, i) ==
  LET n  == Len(xs)
      S[k \in 0..n]  == IF k = 0 THEN 0 ELSE S[k - 1] + xs[k]
      SS[k \in 0..n] == IF k = 0 THEN 0 ELSE SS[k - 1] + xs[k] * xs[k]
  IN FloatDiv((n * xs[i] - S[n]) * (n * xs[i] - S[n]), n * SS[n] - S[n] * S[n])

RECURSIVE OddPart(_)
\* n > 0 without its factors 2
OddPart(n) == IF n % 2 = 0 THEN OddPart(n \div 2) ELSE n

\* a / b, b > 0, is a binary fraction: a float holds it exactly
Dyadic(a, b) == a % OddPart(b) = 0

\* the floats a.mean(), a - mean and a.std() of stats.zscore carry no
\* rounding error: the mean and the standard deviation of the integers xs
\* are binary fractions
ExactScores(xs) ==
  LET n  == Len(xs)
      S[k \in 0..n]  == IF k = 0 THEN 0 ELSE S[k - 1] + xs[k]
      SS[k \in 0..n] == IF k = 0 THEN 0 ELSE SS[k - 1] + xs[k] * xs[k]
      V  == n * SS[n] - S[n] * S[n]
  IN \/ n = 0
     \/ /\ Dyadic(S[n], n)
        /\ \E r \in 0..V : r * r = V /\ Dyadic(r, n)

\* the rows whose exact score equals the threshold although the floats that
\* lead to it are rounded: the float score is within a rounding error of
\* the threshold, on either side
TieRows(xs, threshold) ==
  IF threshold.num < 0 \/ ExactScores(xs) THEN {}
  ELSE {i \in 1..Len(xs) :
          LET z == zscore(xs, i)
          IN /\ ~z.nan
             /\ ~Lt(Mul(threshold, threshold), z)
             /\ ~Lt(z, Mul(threshold, threshold))}

\* the tables detect_anomalies_zscore may return: the rows of df with the
\* columns zscore (held as the square of the exact score, and above: the
\* float is rounded to above the exact score, which decides a tie) and
\* is_anomaly: zscore > threshold
detect_anomalies_zscore(tbl, value_col, threshold) ==
  LET xs == [i \in 1..Len(tbl.rows) |->
               IF IsNull(tbl.rows[i].cells[value_col]) THEN 0
               ELSE tbl.rows[i].cells[value_col].n]
  IN {[cols |-> tbl.cols \cup {"zscore", "is_anomaly"},
       rows |-> [i \in 1..Len(tbl.rows) |->
                   LET z == zscore(xs, i)
                   IN [idx |-> tbl.rows[i].idx,
                       value |-> tbl.rows[i].cells[value_col],
                       zscore |-> z,
                       above |-> i \in up,
                       is_anomaly |-> /\ ~z.nan
                                      /\ \/ threshold.num < 0
                                         \/ Lt(Mul(threshold, threshold), z)
                                         \/ i \in up]]] :
      up \in SUBSET TieRows(xs, threshold)}

----------------------------------------------------------------------------
\* identify_hotspots, identify_coldspots

\* Series.rank: the average of the positions of the equal values, counted
\* from the largest (ascending = FALSE) or from the smallest
Rank(xs, i, ascending) ==
  LET before == Cardinality({k \in DOMAIN xs : IF ascending THEN xs[k] < xs[i] ELSE xs[k] > xs[i]})
      equal  == Cardinality({k \in DOMAIN xs : xs[k] = xs[i]})
  IN Quot(2 * before + equal + 1, 2)

\* the rows kept by a mask over the value column, with their rank
Spots(tbl, value_col, keep(_), rank_col, ascending) ==
  LET rows == SelectSeq(tbl.rows, LAMBDA r : keep(FloatOf(r.cells[value_col])))
      xs   == [i \in 1..Len(rows) |-> rows[i].cells[value_col].n]
  IN [cols |-> tbl.cols \cup {rank_col},
      rows |-> [i \in 1..Len(rows) |->
                  [idx |-> rows[i].idx, value |-> rows[i].cells[value_col],
                   rank |-> Rank(xs, i, ascending)]]]

\* the hotspots over the median, whatever the percentile
identify_hotspots_over_median(tbl, value_col, percentile) ==
  LET threshold == quantile(Column(tbl, value_col), 50, 100)
  IN Spots(tbl, value_col, LAMBDA v : Le(threshold, v), "hotspot_rank", FALSE)

identify_hotspots(tbl, value_col, percentile) ==
  LET threshold == quantile(Column(tbl, value_col), percentile, 100)
  IN Spots(tbl, value_col, LAMBDA v : Le(threshold, v), "hotspot_rank", FALSE)

\* the coldspots under the threshold at the complementary percentile
identify_coldspots_complement(tbl, value_col, percentile) ==
  LET threshold == quantile(Column(tbl, value_col), 100 - percentile, 100)
  IN Spots(tbl, value_col, LAMBDA v : Le(v, threshold), "coldspot_rank", TRUE)

identify_coldspots(tbl, value_col, percentile) ==
  LET threshold == quantile(Column(tbl, value_col), percentile, 100)
  IN Spots(tbl, value_col, LAMBDA v : Le(v, threshold), "coldspot_rank", TRUE)

----------------------------------------------------------------------------
\* state_aggregations

\* total / total.sum() * 100
PctOfTotal(total, grand) == FloatDiv(total * 100, grand)

\* the sum of the first i numbers of a sequence
SumUpTo(xs, i) ==
  LET G[k \in 0..Len(xs)] == IF k = 0 THEN 0 ELSE G[k - 1] + xs[k]
  IN G[i]

\* the percentage of each row alone, not accumulated
CumulativePct_own(totals, i) == PctOfTotal(totals[i], SumUpTo(totals, Len(totals)))

\* pct_of_total.cumsum() at row i
CumulativePct(totals, i) == PctOfTotal(SumUpTo(totals, i), SumUpTo(totals, Len(totals)))

\* the orders sort_values('total', ascending=False) may give the groups:
\* groups of equal total come in any order
StateOrders(tbl, value_col) ==
  LET keys == GroupKeys(tbl)
  IN {q \in [1..Cardinality(keys) -> keys] :
        /\ \A i, j \in DOMAIN q : i # j => q[i] # q[j]
        /\ \A i, j \in DOMAIN q :
             i < j => GroupSum(tbl, value_col, q[i]) >= GroupSum(tbl, value_col, q[j])}

\* the tables state_aggregations may return
state_aggregations(tbl, value_col) ==
  {LET totals == [i \in DOMAIN q |-> GroupSum(tbl, value_col, q[i])]
   IN [cols |-> {"state", "total", "rank", "pct_of_total", "cumulative_pct"},
       rows |-> [i \in DOMAIN q |->
                   [state |-> q[i],
                    total |-> totals[i],
                    rank |-> i,
                    pct_of_total |-> PctOfTotal(totals[i], SumUpTo(totals, Len(totals))),
                    cumulative_pct |-> CumulativePct(totals, i)]]] :
     q \in StateOrders(tbl, value_col)}

----------------------------------------------------------------------------
\* Input tables

\* a DataFrame built from rows of cells: RangeIndex 0..n-1
MkTable(cols, cellrows) ==
  [cols |-> cols,
   rows |-> [i \in 1..Len(cellrows) |-> [idx |-> i - 1, cells |-> cellrows[i]]]]

AliasKeys  == DOMAIN STATE_NAME_MAP
Canonicals == {STATE_NAME_MAP[k] : k \in AliasKeys}

\* spellings of the state whose canonical name is c: the keys of the table,
\* their lower- and upper-case forms, blank-padded keys and c itself
Spellings(c) ==
  LET ks == {k \in AliasKeys : STATE_NAME_MAP[k] = c}
  IN ks \cup {LowerStr(k) : k \in ks} \cup {UpperStr(k) : k \in ks}
        \cup {<<" ">> \o k \o <<" ">> : k \in ks} \cup {c}

StateExtras ==
  {StrC(S_Kerala), StrC(S_tamil_nadu), StrC(S_123), StrC(S_100000), StrC(S_pad123),
   StrC(<<>>), IntC(123), Null}

StateCells(c) == {StrC(s) : s \in Spellings(c)} \cup StateExtras

PinCells ==
  {StrC(P_110001), StrC(P_123), StrC(P_abcdef), StrC(P_1100012), StrC(P_pad110001),
   StrC(P_11000a), StrC(P_000000), StrC(P_11_001), StrC(<<>>),
   IntC(110001), IntC(123), FloatC(110001), Null}

\* day d, month m, year y written with or without leading zeros
DateStr(d, m, y, pad, sep) ==
  (IF pad THEN Pad2(d) ELSE IntToStr(d)) \o <<sep>>
    \o (IF pad THEN Pad2(m) ELSE IntToStr(m)) \o <<sep>> \o IntToStr(y)

ModelYears  == {2023, 2024}
ModelMonths == {1, 2, 13}
ModelDays   == {1, 29, 31, 32}

DateCells(m, y) ==
  {StrC(DateStr(d, m, y, pad, "-")) : d \in ModelDays, pad \in BOOLEAN}
  \cup {StrC(D_invalid), StrC(D_ymd_slash), StrC(D_ymd_dash), StrC(D_short_year),
        StrC(D_blank_day), StrC(D_trailing), Null}

\* the count drawn for each sub-column: sums tell the columns apart
Weight ==
  [age_0_5 |-> 1, age_5_17 |-> 2, age_18_greater |-> 4,
   demo_age_5_17 |-> 1, demo_age_17_ |-> 2,
   bio_age_5_17 |-> 1, bio_age_17_ |-> 2]

\* a total already present in the raw input; no sum of counts equals it
StaleTotal == IntC(9)

TotalCols == {"total_enrolments", "total_updates"}

\* tables of counts: some of the sub-columns of one dataset, with or without
\* a total in the raw input
CountSchemas ==
  {a \cup t : a \in (SUBSET AgeCols) \ {{}}, t \in {{}, {"total_enrolments"}}}
  \cup {a \cup t : a \in (SUBSET {"demo_age_5_17", "demo_age_17_"}) \ {{}},
                   t \in {{}, {"total_updates"}}}
  \cup {a \cup {"total_updates"} : a \in SUBSET {"bio_age_5_17", "bio_age_17_"}}

CountRows(cols) ==
  {[c \in cols |->
      IF c \in TotalCols THEN StaleTotal
      ELSE IF f[c] THEN IntC(Weight[c]) ELSE Null] :
     f \in [cols \ TotalCols -> BOOLEAN]}

----------------------------------------------------------------------------
\* temporal_trends

\* the date of a proleptic Gregorian ordinal
FromOrdinal(n) ==
  LET y == CHOOSE yy \in (SetMin(ModelYears) - 1)..(SetMax(ModelYears) + 1) :
             /\ Ordinal([y |-> yy, m |-> 1, d |-> 1]) <= n
             /\ n < Ordinal([y |-> yy + 1, m |-> 1, d |-> 1])
      doy == n - Ordinal([y |-> y, m |-> 1, d |-> 1]) + 1
      m == CHOOSE mm \in 1..12 :
             DaysBeforeMonth(y, mm) < doy /\ doy <= DaysBeforeMonth(y, mm) + DaysInMonth(y, mm)
  IN DateC(y, m, doy - DaysBeforeMonth(y, m))

\* the bucket of pd.Grouper(freq) that holds the day of ordinal o, named by
\* the ordinal of its label: 'D' is the day itself, 'W' the week that ends
\* on a Sunday, labelled by that Sunday
BucketOf(o, freq) == IF freq = "D" THEN o ELSE o + (6 - ((o + 6) % 7))

BucketStep(freq) == IF freq = "D" THEN 1 ELSE 7

\* the buckets of the rows, one per row, in row order
RowBuckets(tbl, freq) ==
  [i \in 1..Len(tbl.rows) |-> BucketOf(Ordinal(tbl.rows[i].cells["date"]), freq)]

\* the buckets in the order in which the rows first name them
Buckets_as_met(tbl, freq) ==
  LET bs == RowBuckets(tbl, freq)
      F[k \in 0..Len(bs)] ==
        IF k = 0 THEN <<>>
        ELSE IF \E j \in 1..(k - 1) : bs[j] = bs[k] THEN F[k - 1]
        ELSE Append(F[k - 1], bs[k])
  IN F[Len(bs)]

\* the buckets that hold a row, ascending, without the empty ones between
Buckets_observed(tbl, freq) ==
  LET bs == RowBuckets(tbl, freq)
      S  == {bs[i] : i \in DOMAIN bs}
  IN IF S = {} THEN <<>>
     ELSE CHOOSE q \in [1..Cardinality(S) -> S] : \A i, j \in DOMAIN q : i < j => q[i] < q[j]

\* the bins of the grouper: every bucket from the one of the earliest date
\* to the one of the latest, ascending; none for a table without rows
Buckets(tbl, freq) ==
  LET bs == RowBuckets(tbl, freq)
      S  == {bs[i] : i \in DOMAIN bs}
  IN IF S = {} THEN <<>>
     ELSE [k \in 1..(((SetMax(S) - SetMin(S)) \div BucketStep(freq)) + 1) |->
             SetMin(S) + (k - 1) * BucketStep(freq)]

\* the sum of value_col over the rows of a bucket, nulls skipped; 0 for a
\* bucket without rows
BucketSum(tbl, value_col, freq, b) ==
  LET bs == RowBuckets(tbl, freq)
      G[k \in 0..Len(bs)] ==
        IF k = 0 THEN 0
        ELSE G[k - 1] + (IF bs[k] = b THEN Count(tbl.rows[k].cells, value_col) ELSE 0)
  IN G[Len(bs)]

\* the mean of every row up to row i, whatever the window
RollingMean_expanding(totals, i, window) == Quot(SumUpTo(totals, i), i)

\* rolling(window, min_periods=1).mean() at row i
RollingMean(totals, i, window) ==
  LET first == IF i - window + 1 < 1 THEN 1 ELSE i - window + 1
  IN Quot(SumUpTo(totals, i) - SumUpTo(totals, first - 1), i - first + 1)

\* pct_change() * 100 at row i
PctChange(totals, i) ==
  IF i = 1 THEN NaN ELSE FloatDiv((totals[i] - totals[i - 1]) * 100, totals[i - 1])

\* the rows of the result, from the buckets and their totals
TrendTable(buckets, totals) ==
  [cols |-> {"date", "total", "rolling_7d", "rolling_30d", "pct_change", "cumulative"},
   rows |-> [k \in DOMAIN buckets |->
               [date |-> FromOrdinal(buckets[k]),
                total |-> totals[k],
                rolling_7d |-> RollingMean(totals, k, 7),
                rolling_30d |-> RollingMean(totals, k, 30),
                pct_change |-> PctChange(totals, k),
                cumulative |-> SumUpTo(totals, k)]]]

\* groupby(pd.Grouper(key=date_col, freq=freq))[value_col].sum(), then the
\* derived columns (the buckets and the totals are computed once)
temporal_trends(tbl, value_col, freq) ==
  CHOOSE r \in {TrendTable(bt[1], bt[2]) :
                  bt \in {<<b, [k \in DOMAIN b |-> BucketSum(tbl, value_col, freq, b[k])]>> :
                            b \in {Buckets(tbl, freq)}}} : TRUE

----------------------------------------------------------------------------
\* The pipelines: the stages each preprocess_* function calls, in order

\* the null-row filter moved behind the field normalisation
preprocess_enrolment_filter_late ==
  <<"parse_dates", "validate_pincode", "normalize_state_names",
    "remove_invalid_records", "add_temporal_features", "add_enrolment_totals",
    "reset_index">>

preprocess_enrolment ==
  <<"parse_dates", "remove_invalid_records", "validate_pincode",
    "normalize_state_names", "add_temporal_features", "add_enrolment_totals",
    "reset_index">>

preprocess_demographic ==
  <<"parse_dates", "remove_invalid_records", "validate_pincode",
    "normalize_state_names", "add_temporal_features", "add_update_totals",
    "reset_index">>

preprocess_biometric ==
  <<"parse_dates", "remove_invalid_records", "validate_pincode",
    "normalize_state_names", "add_temporal_features", "add_update_totals",
    "reset_index">>

Pipelines == {"enrolment", "demographic", "biometric"}

StagesOf(m) ==
  CASE m = "enrolment"   -> preprocess_enrolment
    [] m = "demographic" -> preprocess_demographic
    [] m = "biometric"   -> preprocess_biometric

\* the prefix each pipeline passes to add_update_totals
PrefixOf(m) == IF m = "biometric" THEN BioPrefix ELSE DemoPrefix

\* the stage that follows the k-th, "done" after the last
StageAt(m, k) == IF k <= Len(StagesOf(m)) THEN StagesOf(m)[k] ELSE "done"

\* the sub-columns of each dataset (run_analysis.py documents the schemas)
NumCols(m) ==
  CASE m = "enrolment"   -> AgeCols
    [] m = "demographic" -> {"demo_age_5_17", "demo_age_17_"}
    [] m = "biometric"   -> {"bio_age_5_17", "bio_age_17_"}

TotalCol(m) == IF m = "enrolment" THEN "total_enrolments" ELSE "total_updates"

\* raw rows of a dataset: the required fields deviate from a clean row in at
\* most one place; the clean row carries every combination of counts
CleanFields ==
  [date |-> StrC(D_01_01_2023), state |-> StrC(S_Kerala),
   district |-> StrC(S_Pune), pincode |-> StrC(P_110001)]

RawFields ==
  {r \in [date     : {StrC(D_01_01_2023), StrC(D_29_02_2024), StrC(D_15_07_2024),
                         StrC(D_31_12_2024), StrC(D_invalid), Null},
          state    : {StrC(S_Kerala), StrC(UpperStr(S_Kerala)), StrC(S_123), StrC(S_pad12), Null},
          district : {StrC(S_Pune), Null},
          pincode  : {StrC(P_110001), StrC(P_pad110001), StrC(P_123), IntC(110001), Null}] :
     Cardinality({c \in RequiredCols : r[c] # CleanFields[c]}) <= 1}

\* the counts of a row whose required fields deviate
PlainCounts(m) == [c \in NumCols(m) |-> TRUE]

CountsFor(m, r) ==
  IF r = CleanFields THEN [NumCols(m) -> BOOLEAN] ELSE {PlainCounts(m)}

RawRows(m, cols) ==
  UNION {{[c \in cols |->
             IF c \in RequiredCols THEN r[c]
             ELSE IF c = TotalCol(m) THEN StaleTotal
             ELSE IF f[c] THEN IntC(Weight[c]) ELSE Null] :
          f \in CountsFor(m, r)} : r \in RawFields}

RawSchemas(m) ==
  {RequiredCols \cup NumCols(m), RequiredCols \cup NumCols(m) \cup {TotalCol(m)}}

----------------------------------------------------------------------------
\* State machine

NoMetrics == /\ enrol_in = <<>> /\ demo_in = <<>> /\ bio_in = <<>> /\ merged = <<>>

\* the module is loaded: the alias table holds its literal
Loaded == state_name_map = STATE_NAME_MAP

NoAnalysis == /\ returned = <<>> /\ hotspots = <<>> /\ coldspots = <<>> /\ arg = <<>>

\* a caller applies one stage to a table: a single-column table as the unit
\* tests build them, a table of counts, or a table of required columns any
\* of which may be absent or null
InitCall ==
  /\ \E n \in 0..MaxRows :
       \/ \E c \in Canonicals : \E s \in [1..n -> StateCells(c)] :
            raw = MkTable({"state"}, [i \in 1..n |-> [state |-> s[i]]])
       \/ \E s \in [1..n -> PinCells] :
            raw = MkTable({"pincode"}, [i \in 1..n |-> [pincode |-> s[i]]])
       \/ \E m \in ModelMonths, y \in ModelYears : \E s \in [1..n -> DateCells(m, y)] :
            raw = MkTable({"date"}, [i \in 1..n |-> [date |-> s[i]]])
       \/ \E cols \in CountSchemas : \E s \in [1..n -> CountRows(cols)] :
            raw = MkTable(cols, s)
       \/ \E cols \in (SUBSET RequiredCols) \ {{}} :
            \E s \in [1..n -> [cols -> {StrC(S_Pune), Null}]] :
              raw = MkTable(cols, s)
  /\ df = raw
  /\ last = "none" /\ raised = FALSE /\ prefix = <<>>
  /\ mode = "call" /\ pc = "none" /\ trace = <<>>
  /\ NoMetrics /\ NoAnalysis /\ Loaded

\* preprocess_all runs the pipeline of each dataset on its raw table
Init ==
  /\ mode \in Pipelines
  /\ \E cols \in RawSchemas(mode), n \in 0..MaxRows :
       \E s \in [1..n -> RawRows(mode, cols)] : raw = MkTable(cols, s)
  /\ df = raw
  /\ last = "none" /\ raised = FALSE /\ prefix = <<>>
  /\ pc = StageAt(mode, 1) /\ trace = <<>>
  /\ NoMetrics /\ NoAnalysis /\ Loaded

\* comparative_state_metrics is given three cleaned tables with totals
MetricStates == {StrC(S_Kerala), StrC(S_Pune)}

MetricRows(col) == {[c \in {"state", col} |-> IF c = "state" THEN r[1] ELSE IntC(r[2])] :
                      r \in MetricStates \X {0, 2}}

InitMetrics ==
  /\ \E n \in 0..MaxRows : \E s \in [1..n -> MetricRows("total_enrolments")] :
       enrol_in = MkTable({"state", "total_enrolments"}, s)
  /\ \E n \in 0..MaxRows : \E s \in [1..n -> MetricRows("total_updates")] :
       demo_in = MkTable({"state", "total_updates"}, s)
  /\ \E n \in 0..1 : \E s \in [1..n -> MetricRows("total_updates")] :
       bio_in = MkTable({"state", "total_updates"}, s)
  /\ merged = <<>>
  /\ raw = EmptyTable /\ df = EmptyTable
  /\ last = "none" /\ raised = FALSE /\ prefix = <<>>
  /\ mode = "metrics" /\ pc = "none" /\ trace = <<>>
  /\ NoAnalysis /\ Loaded

ComparativeStateMetrics ==
  /\ mode = "metrics" /\ last = "none"
  /\ merged' \in comparative_state_metrics(enrol_in, demo_in, bio_in)
  /\ last' = "comparative_state_metrics"
  /\ trace' = Append(trace, "comparative_state_metrics")
  /\ UNCHANGED <<raw, df, raised, mode, pc, prefix, enrol_in, demo_in, bio_in>>
  /\ UNCHANGED <<returned, hotspots, coldspots, arg, state_name_map>>

\* the analysis functions are given a series of values, a table of states
\* and counts, or a cleaned table of dates and counts
SeriesValues == {IntC(0), IntC(1), IntC(10), Null}

IqrExample == <<IntC(10), IntC(10), IntC(10), IntC(10), IntC(10), IntC(100)>>

\* series of n rows with a single value that is not 0, the last
Spike(n, v) == [i \in 1..n |-> IF i = n THEN IntC(v) ELSE IntC(0)]

SpikeExamples == {Spike(9, 7), Spike(9, 10), Spike(10, 7), Spike(10, 10)}

StateRows ==
  {[c \in {"state", "total_enrolments"} |-> IF c = "state" THEN r[1] ELSE r[2]] :
     r \in {StrC(S_Kerala), StrC(S_Pune), Null} \X {IntC(0), IntC(1), Null}}

TrendDates ==
  {DateC(2024, 2, 27), DateC(2024, 2, 29), DateC(2024, 3, 1), DateC(2024, 3, 4),
   DateC(2024, 3, 6), DateC(2024, 3, 29)}

TrendRows ==
  {[c \in {"date", "total_enrolments"} |-> IF c = "date" THEN r[1] ELSE r[2]] :
     r \in TrendDates \X {IntC(1), IntC(2), Null}}

Multipliers     == {Quot(0, 1), Quot(1, 1), Quot(3, 2)}
Thresholds      == {Quot(-1, 1), Quot(0, 1), Quot(1, 1), Quot(3, 1)}
HotPercentiles  == {50, 90}
ColdPercentiles == {10, 50}
Freqs           == {"D", "W"}

\* the value_col the caller names for a table
ValueCol(tbl) == IF "total" \in tbl.cols THEN "total" ELSE "total_enrolments"

InitAnalysis ==
  /\ \/ \E n \in 0..MaxLen : \E s \in [1..n -> SeriesValues] :
          df = MkTable({"total"}, [i \in 1..n |-> [total |-> s[i]]])
     \/ df = MkTable({"total"}, [i \in 1..Len(IqrExample) |-> [total |-> IqrExample[i]]])
     \/ \E s \in SpikeExamples : df = MkTable({"total"}, [i \in 1..Len(s) |-> [total |-> s[i]]])
     \/ \E n \in 0..MaxRows : \E s \in [1..n -> StateRows] :
          df = MkTable({"state", "total_enrolments"}, s)
     \/ \E n \in 0..MaxRows : \E s \in [1..n -> TrendRows] :
          df = MkTable({"date", "total_enrolments"}, s)
  /\ raw = df
  /\ last = "none" /\ raised = FALSE /\ prefix = <<>>
  /\ mode = "analysis" /\ pc = "none" /\ trace = <<>>
  /\ NoMetrics /\ NoAnalysis /\ Loaded

\* the table the stage assigns into is the caller's own
AfterCall_in_place(tbl, result) == result

\* the caller's table tbl after a call that returned result: every stage
\* works on df.copy() or on a new table built by a filter or a groupby, so
\* its assignments do not reach the table it was given
AfterCall(tbl, result) == tbl

\* the function is called with argument a: it raises, or returns
Analyse(fn, a, raises) ==
  /\ mode = "analysis" /\ ~raised
  /\ fn \notin DOMAIN arg
  /\ raised' = raises
  /\ last' = fn
  /\ trace' = Append(trace, fn)
  /\ arg' = (fn :> a) @@ arg
  /\ UNCHANGED <<df, mode, pc, prefix, enrol_in, demo_in, bio_in, merged, state_name_map>>

\* a statistic that raises when it is given no row
Missing_or_empty(tbl, cols) == ~(cols \subseteq tbl.cols) \/ tbl.rows = <<>>

\* a function that reads a column raises when the table lacks it
Missing(tbl, cols) == ~(cols \subseteq tbl.cols)

DetectAnomaliesIqr ==
  \E multiplier \in Multipliers :
    /\ last = "none"
    /\ Analyse("detect_anomalies_iqr", multiplier, Missing(df, {ValueCol(df)}))
    /\ returned' = IF Missing(df, {ValueCol(df)}) THEN returned
                   ELSE detect_anomalies_iqr(df, ValueCol(df), multiplier)
    /\ raw' = IF Missing(df, {ValueCol(df)}) THEN raw ELSE AfterCall(raw, returned')
    /\ UNCHANGED <<hotspots, coldspots>>

DetectAnomaliesZscore ==
  \E threshold \in Thresholds :
    /\ last = "none"
    /\ Analyse("detect_anomalies_zscore", threshold, Missing(df, {ValueCol(df)}))
    /\ IF Missing(df, {ValueCol(df)}) THEN returned' = returned
       ELSE returned' \in detect_anomalies_zscore(df, ValueCol(df), threshold)
    /\ raw' = IF Missing(df, {ValueCol(df)}) THEN raw ELSE AfterCall(raw, returned')
    /\ UNCHANGED <<hotspots, coldspots>>

\* hotspots and coldspots may be taken of the same table, in either order
IdentifyHotspots ==
  \E percentile \in HotPercentiles :
    /\ last \in {"none", "identify_coldspots"}
    /\ Analyse("identify_hotspots", percentile, Missing(df, {ValueCol(df)}))
    /\ hotspots' = IF Missing(df, {ValueCol(df)}) THEN hotspots
                   ELSE identify_hotspots(df, ValueCol(df), percentile)
    /\ raw' = IF Missing(df, {ValueCol(df)}) THEN raw ELSE AfterCall(raw, hotspots')
    /\ UNCHANGED <<returned, coldspots>>

IdentifyColdspots ==
  \E percentile \in ColdPercentiles :
    /\ last \in {"none", "identify_hotspots"}
    /\ Analyse("identify_coldspots", percentile, Missing(df, {ValueCol(df)}))
    /\ coldspots' = IF Missing(df, {ValueCol(df)}) THEN coldspots
                    ELSE identify_coldspots(df, ValueCol(df), percentile)
    /\ raw' = IF Missing(df, {ValueCol(df)}) THEN raw ELSE AfterCall(raw, coldspots')
    /\ UNCHANGED <<returned, hotspots>>

StateAggregations ==
  /\ last = "none"
  /\ Analyse("state_aggregations", ValueCol(df), Missing(df, {"state", ValueCol(df)}))
  /\ IF Missing(df, {"state", ValueCol(df)}) THEN returned' = returned
     ELSE returned' \in state_aggregations(df, ValueCol(df))
  /\ UNCHANGED <<raw, hotspots, coldspots>>

TemporalTrends ==
  \E freq \in Freqs :
    /\ last = "none"
    /\ Analyse("temporal_trends", freq, Missing(df, {"date", ValueCol(df)}))
    /\ returned' = IF Missing(df, {"date", ValueCol(df)}) THEN returned
                   ELSE temporal_trends(df, ValueCol(df), freq)
    /\ UNCHANGED <<raw, hotspots, coldspots>>

Analysis ==
  \/ DetectAnomaliesIqr
  \/ DetectAnomaliesZscore
  \/ IdentifyHotspots
  \/ IdentifyColdspots
  \/ StateAggregations
  \/ TemporalTrends

Ready(stage) ==
  /\ ~raised
  /\ IF mode = "call" THEN last = "none" ELSE pc = stage

\* the stage returns result, or raises and leaves the pipeline
Step(stage, raises, result) ==
  /\ Ready(stage)
  /\ IF raises
       THEN /\ raised' = TRUE
            /\ df' = df
            /\ raw' = raw
            /\ pc' = IF mode = "call" THEN pc ELSE "failed"
       ELSE /\ raised' = FALSE
            /\ df' = result
            /\ raw' = IF trace = <<>> THEN AfterCall(raw, result) ELSE raw
            /\ pc' = IF mode = "call" THEN pc ELSE StageAt(mode, Len(trace) + 2)
  /\ last' = stage
  /\ trace' = Append(trace, stage)
  /\ UNCHANGED <<mode, enrol_in, demo_in, bio_in, merged, returned, hotspots, coldspots, arg,
                 state_name_map>>

ParseDates ==
  /\ Step("parse_dates", "date" \notin df.cols, parse_dates(df))
  /\ UNCHANGED prefix

RemoveInvalidRecords ==
  /\ Step("remove_invalid_records", FALSE, remove_invalid_records(df))
  /\ UNCHANGED prefix

ValidatePincode ==
  /\ Step("validate_pincode", "pincode" \notin df.cols, validate_pincode(df))
  /\ UNCHANGED prefix

NormalizeStateNames ==
  /\ Step("normalize_state_names", "state" \notin df.cols, normalize_state_names(df))
  /\ UNCHANGED prefix

AddTemporalFeatures ==
  /\ Step("add_temporal_features", TemporalRaises(df), add_temporal_features(df))
  /\ UNCHANGED prefix

AddEnrolmentTotals ==
  /\ Step("add_enrolment_totals", FALSE, add_enrolment_totals(df))
  /\ UNCHANGED prefix

AddUpdateTotals ==
  \E p \in {DemoPrefix, BioPrefix} :
    /\ mode # "call" => p = PrefixOf(mode)
    /\ Step("add_update_totals", FALSE, add_update_totals(df, p))
    /\ prefix' = p

ResetIndex ==
  /\ Step("reset_index", FALSE, reset_index(df))
  /\ UNCHANGED prefix

Stage ==
  \/ ParseDates
  \/ RemoveInvalidRecords
  \/ ValidatePincode
  \/ NormalizeStateNames
  \/ AddTemporalFeatures
  \/ AddEnrolmentTotals
  \/ AddUpdateTotals

Next == Stage \/ ResetIndex

Spec == Init /\ [][Next]_vars

SpecCall == InitCall /\ [][Stage]_vars

SpecMetrics == InitMetrics /\ [][ComparativeStateMetrics]_vars

SpecAnalysis == InitAnalysis /\ [][Analysis]_vars

\* one call of a preprocessing stage or of a function that takes a series
Calls ==
  \/ Stage
  \/ DetectAnomaliesIqr
  \/ DetectAnomaliesZscore
  \/ IdentifyHotspots
  \/ IdentifyColdspots

\* the table of the call is one a stage or an analysis function is given
InitCalls == InitCall \/ InitAnalysis

SpecCalls == InitCalls /\ [][Calls]_vars

----------------------------------------------------------------------------
\* Vocabulary of the properties

\* the stage was called directly on raw and returned df
Called(stage) == mode = "call" /\ last = stage /\ ~raised

\* the row of raw that a row of df comes from (stages keep index labels)
Origin(r) == raw.rows[r.idx + 1]

AsciiDigits == {"0", "1", "2", "3", "4", "5", "6", "7", "8", "9"}

\* equal up to the case of letters
CaseEq(a, b) == LowerStr(a) = LowerStr(b)

\* the keys of the alias table that the state value c is a casing variant of
KeysOf(c) == {k \in AliasKeys : CaseEq(Strip(AsStr(c)), k)}

\* a raw state token that is a number: an integer, or a string of digits
PurelyNumeric(c) ==
  \/ c.t = "int"
  \/ c.t = "str" /\ c.s # <<>> /\ \A i \in 1..Len(c.s) : c.s[i] \in AsciiDigits

IndexOf(rows) == [i \in 1..Len(rows) |-> rows[i].idx]

----------------------------------------------------------------------------
\* C1: after normalize_state_names, a row whose state value is a casing
\* variant of a key of the alias table holds exactly the canonical value the
\* table maps that key to, and every other surviving row holds its trimmed
\* value title-cased.
C1_AliasYieldsCanonical ==
  Called("normalize_state_names") =>
    \A i \in 1..Len(df.rows) :
      LET out == df.rows[i].cells["state"]
          in  == Origin(df.rows[i]).cells["state"]
      IN /\ out.t = "str"
         /\ IF KeysOf(in) # {}
              THEN \A k \in KeysOf(in) : out.s = STATE_NAME_MAP[k]
              ELSE out.s = Title(Strip(AsStr(in)))

\* C2: after normalize_state_names, two rows whose raw state values are
\* spellings of the same state (case variants of each other, or casing
\* variants of keys with the same canonical value) hold the same string.
SameState(a, b) ==
  \/ CaseEq(Strip(AsStr(a)), Strip(AsStr(b)))
  \/ \E k1 \in KeysOf(a), k2 \in KeysOf(b) : STATE_NAME_MAP[k1] = STATE_NAME_MAP[k2]

SixAsciiDigits(s) == Len(s) = 6 /\ \A i \in 1..6 : s[i] \in AsciiDigits

IsDDMMYYYY(s) ==
  /\ Len(s) = 10
  /\ s[3] = "-" /\ s[6] = "-"
  /\ \A i \in {1, 2, 4, 5, 7, 8, 9, 10} : s[i] \in AsciiDigits

\* the calendar has day d of month m in year y
CalendarDay(y, m, d) == m \in 1..12 /\ d >= 1 /\ d <= DaysInMonth(y, m)

DayForms(d) ==
  {Pad2(d)} \cup (IF d < 10 THEN {IntToStr(d), <<" ">> \o IntToStr(d)} ELSE {})
MonthForms(m) == {Pad2(m)} \cup (IF m < 10 THEN {IntToStr(m)} ELSE {})

Writings(y, m, d) ==
  {dd \o <<"-">> \o mm \o <<"-">> \o Pad4(y) : dd \in DayForms(d), mm \in MonthForms(m)}

\* every way of writing an existing calendar day of the modelled years
NamedDays ==
  UNION {{<<w, ymd>> : w \in Writings(ymd[1], ymd[2], ymd[3])} :
           ymd \in {t \in ModelYears \X (1..12) \X (1..31) : CalendarDay(t[1], t[2], t[3])}}

C9_StagesIdempotent ==
  /\ Called("normalize_state_names") => normalize_state_names(df) = df
  /\ Called("validate_pincode") => validate_pincode(df) = df
  /\ Called("remove_invalid_records") => remove_invalid_records(df) = df
  /\ Called("add_enrolment_totals") => add_enrolment_totals(df) = df
  /\ Called("add_update_totals") => add_update_totals(df, prefix) = df

----------------------------------------------------------------------------
\* Properties of the pipelines

Finished == mode \in Pipelines /\ pc = "done"

\* position of a stage in the stages run so far (0 when it has not run)
Position(stage) ==
  IF \E k \in 1..Len(trace) : trace[k] = stage
    THEN CHOOSE k \in 1..Len(trace) : trace[k] = stage
    ELSE 0

\* stage a has run before stage b, if b has run at all
Before(a, b) == Position(b) # 0 => (Position(a) # 0 /\ Position(a) < Position(b))

FieldNormalizers == {"parse_dates", "validate_pincode", "normalize_state_names"}
FeatureDerivers  == {"add_temporal_features", "add_enrolment_totals", "add_update_totals"}

\* C6: every record a preprocess_* pipeline returns has a non-null date, a
\* non-null state, a non-null district and a PIN that is a string of six
\* digits.
C6_OutputFieldsPresent ==
  Finished =>
    \A i \in 1..Len(df.rows) :
      LET c == df.rows[i].cells
      IN /\ c["date"].t = "date"
         /\ c["state"].t = "str" /\ c["state"].s # Title(AsStr(Null))
         /\ ~IsNull(c["district"])
         /\ c["pincode"].t = "str" /\ SixAsciiDigits(c["pincode"].s)

C6_Witness ==
  /\ Finished
  /\ Len(df.rows) >= 1
  /\ Len(df.rows) < Len(raw.rows)
  /\ \E i \in 1..Len(raw.rows) : IsNull(raw.rows[i].cells["district"])

\* C7: in every cleaned dataset the total of a row (total_enrolments of an
\* enrolment row, total_updates of a demographic or biometric row) is the sum
\* of the row's sub-columns, a missing count adding nothing, whether or not
\* the raw input already carried a total.
C7_TotalsRecomputed ==
  Finished =>
    \A i \in 1..Len(df.rows) :
      LET c == df.rows[i].cells
      IN CASE mode = "enrolment" ->
                c["total_enrolments"] =
                  IntC(Count(c, "age_0_5") + Count(c, "age_5_17") + Count(c, "age_18_greater"))
           [] mode = "demographic" ->
                c["total_updates"] =
                  IntC(Count(c, "demo_age_5_17") + Count(c, "demo_age_17_"))
           [] mode = "biometric" ->
                c["total_updates"] =
                  IntC(Count(c, "bio_age_5_17") + Count(c, "bio_age_17_"))

C7_Witness ==
  /\ Finished
  /\ TotalCol(mode) \in raw.cols
  /\ \E i \in 1..Len(df.rows) :
       /\ df.rows[i].cells[TotalCol(mode)] # StaleTotal
       /\ \E k \in NumCols(mode) : IsNull(df.rows[i].cells[k])

----------------------------------------------------------------------------
\* Properties of comparative_state_metrics

Compared == mode = "metrics" /\ last = "comparative_state_metrics"

\* the states present in the enrolment table and in no other
OnlyEnrolled == GroupKeys(enrol_in) \ (GroupKeys(demo_in) \cup GroupKeys(bio_in))

RowsOf(st) == {i \in 1..Len(merged) : merged[i].state = st}

\* C10 as stated: a state present only in the enrolment table has one row
\* in the result, with zero demographic and biometric updates and both
\* ratios null.
C10_EnrolOnlyRatiosNull ==
  Compared =>
    \A st \in OnlyEnrolled :
      /\ Cardinality(RowsOf(st)) = 1
      /\ \A i \in RowsOf(st) :
           /\ merged[i].demo_updates = 0 /\ merged[i].bio_updates = 0
           /\ merged[i].demo_to_enrol_ratio = NaN
           /\ merged[i].bio_to_enrol_ratio = NaN

\* C10 as amended: a state present only in the enrolment table has one row
\* in the result, with zero demographic and biometric updates; both its
\* ratios are 0 when its enrolment total is not zero, and null (never an
\* error, never infinite) when its enrolment total is zero.
C10_EnrolOnlyRatiosZeroOrNull ==
  Compared =>
    \A st \in OnlyEnrolled :
      /\ Cardinality(RowsOf(st)) = 1
      /\ \A i \in RowsOf(st) :
           LET r == merged[i]
           IN /\ r.demo_updates = 0 /\ r.bio_updates = 0
              /\ r.demo_to_enrol_ratio = r.bio_to_enrol_ratio
              /\ IF r.enrolments = 0
                   THEN r.demo_to_enrol_ratio.nan
                   ELSE /\ ~r.demo_to_enrol_ratio.nan
                        /\ r.demo_to_enrol_ratio.num = 0
                        /\ r.demo_to_enrol_ratio.den # 0

C10_Witness ==
  /\ Compared
  /\ \E st \in OnlyEnrolled : \E i \in RowsOf(st) : merged[i].enrolments > 0
  /\ \E i \in 1..Len(merged) : merged[i].demo_updates > 0

\* the rows of the enrolment table that carry state st
EnrolRowsOf(st) == {i \in 1..Len(enrol_in.rows) : enrol_in.rows[i].cells["state"] = st}

\* C11: in the result of comparative_state_metrics every state whose
\* enrolment total is zero - no row in the enrolment table, or rows that sum
\* to zero - has null demographic-to-enrolment and biometric-to-enrolment
\* ratios (no infinite value, nothing raised), and every state with a
\* non-zero enrolment total has the exact quotients of its update totals by
\* its enrolment total.
C11_ZeroEnrolmentRatiosNull ==
  Compared =>
    \A i \in 1..Len(merged) :
      LET r == merged[i]
          zero == \A k \in EnrolRowsOf(r.state) :
                    Count(enrol_in.rows[k].cells, "total_enrolments") = 0
      IN /\ zero <=> r.enrolments = 0
         /\ r.demo_to_enrol_ratio.den # 0 /\ r.bio_to_enrol_ratio.den # 0
         /\ IF zero
              THEN r.demo_to_enrol_ratio = NaN /\ r.bio_to_enrol_ratio = NaN
              ELSE /\ r.demo_to_enrol_ratio = Quot(r.demo_updates, r.enrolments)
                   /\ r.bio_to_enrol_ratio = Quot(r.bio_updates, r.enrolments)

C11_Witness ==
  /\ Compared
  /\ \E i, k \in 1..Len(merged) :
       /\ EnrolRowsOf(merged[i].state) = {}
       /\ merged[i].demo_updates > 0 /\ merged[i].demo_to_enrol_ratio = NaN
       /\ merged[k].enrolments > 0 /\ merged[k].demo_updates > 0
       /\ merged[k].demo_to_enrol_ratio = Quot(merged[k].demo_updates, merged[k].enrolments)

----------------------------------------------------------------------------
\* Properties of the anomaly detectors

\* the analysis function fn was the last to be called, and returned
Ran(fn) == mode = "analysis" /\ last = fn /\ ~raised

\* the numbers of the value column of df, nulls left out
Values == Numbers(Column(df, ValueCol(df)))

\* the k-th order statistic: the least value with k values at or below it
Kth(xs, k) ==
  SetMin({xs[i] : i \in {j \in DOMAIN xs : Cardinality({l \in DOMAIN xs : xs[l] <= xs[j]}) >= k}})

\* den times the percentile of xs at the fraction num / den, interpolated
\* linearly between the order statistics around position (n - 1) * num / den
Percentile(xs, num, den) ==
  LET h  == (Len(xs) - 1) * num
      lo == (h \div den) + 1
  IN den * Kth(xs, lo)
       + (IF h % den = 0 THEN 0 ELSE (h % den) * (Kth(xs, lo + 1) - Kth(xs, lo)))

\* C12: detect_anomalies_iqr with multiplier m labels a row 'low' iff its
\* value is strictly below Q1 - m * IQR, 'high' iff strictly above
\* Q3 + m * IQR and 'normal' otherwise (a null value is 'normal'), Q1 and Q3
\* being the 25th and 75th percentiles by linear interpolation; is_anomaly
\* marks the rows that are not 'normal'; and for 10, 10, 10, 10, 10, 100
\* with m = 1.5 the last row is 'high' and the others 'normal'.
C12_IqrLabels ==
  Ran("detect_anomalies_iqr") =>
    LET m  == arg["detect_anomalies_iqr"]
        q1 == Percentile(Values, 1, 4)
        q3 == Percentile(Values, 3, 4)
        \* v < Q1 - m * IQR and v > Q3 + m * IQR, times 4 * m.den
        low(v)  == 4 * m.den * v < m.den * q1 - m.num * (q3 - q1)
        high(v) == 4 * m.den * v > m.den * q3 + m.num * (q3 - q1)
        label(c) == IF IsNull(c) THEN "normal"
                    ELSE IF low(c.n) THEN "low"
                    ELSE IF high(c.n) THEN "high" ELSE "normal"
    IN /\ Len(returned.rows) = Len(df.rows)
       /\ \A i \in 1..Len(df.rows) :
            /\ returned.rows[i].idx = df.rows[i].idx
            /\ returned.rows[i].anomaly_type = label(df.rows[i].cells[ValueCol(df)])
            /\ returned.rows[i].is_anomaly <=> returned.rows[i].anomaly_type # "normal"
       /\ ("total" \in df.cols /\ Column(df, "total") = IqrExample /\ m = Quot(3, 2)) =>
            [i \in 1..6 |-> returned.rows[i].anomaly_type]
              = <<"normal", "normal", "normal", "normal", "normal", "high">>

C12_Witness ==
  /\ Ran("detect_anomalies_iqr")
  /\ "total" \in df.cols
  /\ Column(df, "total") = IqrExample
  /\ arg["detect_anomalies_iqr"] = Quot(3, 2)
  /\ returned.rows[6].anomaly_type = "high"

\* C13: detect_anomalies_zscore on a column whose values are all equal
\* returns without raising and flags no row, whatever the threshold.
C13_ConstantColumnNoAnomaly ==
  (/\ mode = "analysis" /\ last = "detect_anomalies_zscore"
   /\ \A i, j \in 1..Len(df.rows) :
        df.rows[i].cells[ValueCol(df)] = df.rows[j].cells[ValueCol(df)])
  => /\ ~raised
     /\ Len(returned.rows) = Len(df.rows)
     /\ \A i \in 1..Len(returned.rows) : ~returned.rows[i].is_anomaly

C13_Witness ==
  /\ Ran("detect_anomalies_zscore")
  /\ Len(df.rows) >= 3
  /\ \A i \in 1..Len(df.rows) : df.rows[i].cells[ValueCol(df)] = IntC(10)
  /\ arg["detect_anomalies_zscore"].num < 0
  /\ \A i \in 1..Len(returned.rows) : ~returned.rows[i].is_anomaly

\* C14: on a table without rows detect_anomalies_iqr and
\* detect_anomalies_zscore do not raise and return a table without rows
\* that has the columns of the input and the flag columns (is_anomaly and
\* anomaly_type, or zscore and is_anomaly).
C14_EmptySeriesEmptyResult ==
  (/\ mode = "analysis"
   /\ last \in {"detect_anomalies_iqr", "detect_anomalies_zscore"}
   /\ df.rows = <<>>)
  => /\ ~raised
     /\ returned.rows = <<>>
     /\ returned.cols =
          df.cols \cup (IF last = "detect_anomalies_iqr"
                          THEN {"is_anomaly", "anomaly_type"}
                          ELSE {"zscore", "is_anomaly"})

C14_Witness ==
  /\ Ran("detect_anomalies_zscore")
  /\ df.rows = <<>>
  /\ returned.rows = <<>>
  /\ "zscore" \in returned.cols

----------------------------------------------------------------------------
\* Properties of state_aggregations

\* the float is exactly 100
Is100(x) == ~x.nan /\ x.den # 0 /\ x.num = 100 * x.den

\* the sum of the value column over the rows of df that carry a state
GrandTotal ==
  SumUpTo([i \in 1..Len(df.rows) |->
             IF IsNull(df.rows[i].cells["state"]) THEN 0
             ELSE Count(df.rows[i].cells, ValueCol(df))],
          Len(df.rows))

\* C15 as stated: for any input with at least one row (that carries a
\* state), the cumulative_pct of the last row of state_aggregations is 100.
C15_LastCumulativeIs100 ==
  (/\ Ran("state_aggregations")
   /\ \E i \in 1..Len(df.rows) : ~IsNull(df.rows[i].cells["state"])) =>
    /\ Len(returned.rows) >= 1
    /\ Is100(returned.rows[Len(returned.rows)].cumulative_pct)

\* C15 as amended: when the grand total of the value column is not zero,
\* the cumulative_pct of the last row of state_aggregations is 100; when
\* the grand total is zero every cumulative_pct is null, and when no row
\* of the input carries a state the result has no row.
C15_LastCumulativeIs100UnlessZeroTotal ==
  Ran("state_aggregations") =>
    /\ Len(returned.rows) = 0 <=> \A i \in 1..Len(df.rows) : IsNull(df.rows[i].cells["state"])
    /\ Len(returned.rows) >= 1 =>
         IF GrandTotal # 0
           THEN Is100(returned.rows[Len(returned.rows)].cumulative_pct)
           ELSE \A i \in 1..Len(returned.rows) : returned.rows[i].cumulative_pct = NaN

C15_Witness ==
  /\ Ran("state_aggregations")
  /\ Len(returned.rows) = 2
  /\ ~returned.rows[1].cumulative_pct.nan
  /\ ~Is100(returned.rows[1].cumulative_pct)
  /\ Is100(returned.rows[2].cumulative_pct)

\* C16: state_aggregations returns one row per state, sorted by total
\* descending, with a dense rank: the first row has rank 1, a row whose
\* total equals the total of the row before it shares that row's rank, and
\* any other row has the rank of the row before it plus one.
C16_DenseRank ==
  Ran("state_aggregations") =>
    LET rows == returned.rows
    IN /\ {rows[i].state : i \in 1..Len(rows)} = GroupKeys(df)
       /\ Len(rows) = Cardinality(GroupKeys(df))
       /\ \A i \in 1..Len(rows) :
            rows[i].total = GroupSum(df, ValueCol(df), rows[i].state)
       /\ \A i \in 1..(Len(rows) - 1) : rows[i].total >= rows[i + 1].total
       /\ Len(rows) >= 1 => rows[1].rank = 1
       /\ \A i \in 1..(Len(rows) - 1) :
            rows[i + 1].rank = IF rows[i + 1].total = rows[i].total
                                 THEN rows[i].rank ELSE rows[i].rank + 1

----------------------------------------------------------------------------
\* Properties of identify_hotspots and identify_coldspots

\* the function was called on df and returned
Done(fn) == mode = "analysis" /\ fn \in DOMAIN arg /\ ~raised

\* the index labels of the rows of df whose value satisfies test
LabelsWhere(test(_)) ==
  IndexOf(SelectSeq(df.rows, LAMBDA r : /\ ~IsNull(r.cells[ValueCol(df)])
                                        /\ test(r.cells[ValueCol(df)].n)))

\* C17: identify_hotspots returns exactly the rows whose value is greater
\* than or equal to the p-th percentile of the column, identify_coldspots
\* exactly the rows whose value is less than or equal to its percentile; a
\* row whose value equals the threshold is included.
C17_SpotsInclusive ==
  /\ Done("identify_hotspots") =>
       LET p == arg["identify_hotspots"]
       IN IndexOf(hotspots.rows) =
            LabelsWhere(LAMBDA v : 100 * v >= Percentile(Values, p, 100))
  /\ Done("identify_coldspots") =>
       LET p == arg["identify_coldspots"]
       IN IndexOf(coldspots.rows) =
            LabelsWhere(LAMBDA v : 100 * v <= Percentile(Values, p, 100))

C17_Witness ==
  /\ Done("identify_hotspots") /\ Done("identify_coldspots")
  /\ arg["identify_hotspots"] = 90
  /\ Len(Values) = 4
  /\ Len(hotspots.rows) = 2 /\ Len(coldspots.rows) = 1
  /\ \A i \in 1..2 : 100 * hotspots.rows[i].value.n = Percentile(Values, 90, 100)
  /\ 100 * coldspots.rows[1].value.n < Percentile(Values, arg["identify_coldspots"], 100)

\* C18: with identify_hotspots at percentile 90 and identify_coldspots at
\* percentile 10 of the same column, a row whose value lies strictly between
\* the two thresholds is in neither result.
C18_BetweenThresholdsInNeither ==
  (/\ Done("identify_hotspots") /\ arg["identify_hotspots"] = 90
   /\ Done("identify_coldspots") /\ arg["identify_coldspots"] = 10)
  => \A i \in 1..Len(df.rows) :
       LET c == df.rows[i].cells[ValueCol(df)]
       IN (/\ ~IsNull(c)
           /\ Percentile(Values, 10, 100) < 100 * c.n
           /\ 100 * c.n < Percentile(Values, 90, 100))
          => /\ \A k \in 1..Len(hotspots.rows) : hotspots.rows[k].idx # df.rows[i].idx
             /\ \A k \in 1..Len(coldspots.rows) : coldspots.rows[k].idx # df.rows[i].idx

C18_Witness ==
  /\ Done("identify_hotspots") /\ arg["identify_hotspots"] = 90
  /\ Done("identify_coldspots") /\ arg["identify_coldspots"] = 10
  /\ Len(hotspots.rows) >= 1 /\ Len(coldspots.rows) >= 1
  /\ \E i \in 1..Len(df.rows) :
       /\ ~IsNull(df.rows[i].cells[ValueCol(df)])
       /\ Percentile(Values, 10, 100) < 100 * df.rows[i].cells[ValueCol(df)].n
       /\ 100 * df.rows[i].cells[ValueCol(df)].n < Percentile(Values, 90, 100)

----------------------------------------------------------------------------
\* Properties of temporal_trends

\* date a is earlier than date b
Earlier(a, b) ==
  \/ a.y < b.y
  \/ a.y = b.y /\ a.m < b.m
  \/ a.y = b.y /\ a.m = b.m /\ a.d < b.d

\* the calendar day after date a
NextDay(a) ==
  IF a.d < DaysInMonth(a.y, a.m) THEN DateC(a.y, a.m, a.d + 1)
  ELSE IF a.m < 12 THEN DateC(a.y, a.m + 1, 1)
  ELSE DateC(a.y + 1, 1, 1)

\* the dates of the rows of df
InputDates == {df.rows[i].cells["date"] : i \in 1..Len(df.rows)}

\* C19: the rows returned by temporal_trends are strictly ascending in
\* time, so no time bucket occurs twice, whatever the order of the input
\* rows.
C19_BucketsAscending ==
  Ran("temporal_trends") =>
    \A i, j \in 1..Len(returned.rows) :
      i < j => Earlier(returned.rows[i].date, returned.rows[j].date)

C19_Witness ==
  /\ Ran("temporal_trends")
  /\ Len(df.rows) = 2
  /\ Earlier(df.rows[2].cells["date"], df.rows[1].cells["date"])
  /\ Len(returned.rows) >= 2
  /\ Earlier(returned.rows[1].date, returned.rows[2].date)

\* C20: with daily granularity temporal_trends returns one row for every
\* calendar day from the earliest to the latest date of the input, in
\* order, and no other row; the total of a day is the sum of the target
\* column over the records of that day, which is 0 for a day without
\* records.
C20_DailyRowsCoverRange ==
  (Ran("temporal_trends") /\ arg["temporal_trends"] = "D") =>
    LET rows == returned.rows
    IN /\ Len(rows) = 0 <=> InputDates = {}
       /\ Len(rows) >= 1 =>
            /\ rows[1].date \in InputDates
            /\ \A dt \in InputDates : ~Earlier(dt, rows[1].date)
            /\ rows[Len(rows)].date \in InputDates
            /\ \A dt \in InputDates : ~Earlier(rows[Len(rows)].date, dt)
       /\ \A k \in 1..(Len(rows) - 1) : rows[k + 1].date = NextDay(rows[k].date)
       /\ \A k \in 1..Len(rows) :
            rows[k].total =
              SumUpTo([i \in 1..Len(df.rows) |->
                         IF df.rows[i].cells["date"] = rows[k].date
                           THEN Count(df.rows[i].cells, ValueCol(df)) ELSE 0],
                      Len(df.rows))

C20_Witness ==
  /\ Ran("temporal_trends") /\ arg["temporal_trends"] = "D"
  /\ Len(returned.rows) >= 3
  /\ \E k \in 1..Len(returned.rows) :
       returned.rows[k].date \notin InputDates /\ returned.rows[k].total = 0
  /\ \E k \in 1..Len(returned.rows) : returned.rows[k].total > 0

\* C21: in temporal_trends the percent change is null for the first bucket
\* and for any later bucket whose preceding total is zero, never infinite;
\* for every other bucket it is 100 * (total - previous) / previous.
C21_PctChangeNullOnZeroPrevious ==
  Ran("temporal_trends") =>
    \A k \in 1..Len(returned.rows) :
      LET p == returned.rows[k].pct_change
      IN IF k = 1 \/ returned.rows[k - 1].total = 0
           THEN p = NaN
           ELSE /\ ~p.nan /\ p.den # 0
                /\ p.num * returned.rows[k - 1].total
                     = 100 * (returned.rows[k].total - returned.rows[k - 1].total) * p.den

\* the sum of the target column over all the rows of df, nulls skipped
ColumnSum ==
  SumUpTo([i \in 1..Len(df.rows) |-> Count(df.rows[i].cells, ValueCol(df))], Len(df.rows))

\* the sum of the totals of the rows from..to of the result
TotalsBetween(from, to) ==
  SumUpTo([k \in 1..Len(returned.rows) |-> returned.rows[k].total], to)
    - SumUpTo([k \in 1..Len(returned.rows) |-> returned.rows[k].total], from - 1)

\* the fraction x is the mean of the totals of the rows from..to
IsMeanOf(x, from, to) ==
  ~x.nan /\ x.den # 0 /\ x.num * (to - from + 1) = TotalsBetween(from, to) * x.den

\* C22: in temporal_trends the cumulative value of row i is the sum of the
\* totals of the rows up to i, so the last one is the sum of the target
\* column over all input records; the 7-row and the 30-row trailing means
\* are the means of the rows available in their windows, and on the first
\* row they equal its total.
C22_CumulativeAndTrailingMeans ==
  Ran("temporal_trends") =>
    LET rows == returned.rows
        n    == Len(rows)
    IN /\ \A i \in 1..n :
            /\ rows[i].cumulative = TotalsBetween(1, i)
            /\ IsMeanOf(rows[i].rolling_7d, IF i > 7 THEN i - 6 ELSE 1, i)
            /\ IsMeanOf(rows[i].rolling_30d, IF i > 30 THEN i - 29 ELSE 1, i)
       /\ n >= 1 =>
            /\ rows[n].cumulative = ColumnSum
            /\ rows[1].rolling_7d = Quot(rows[1].total, 1)
            /\ rows[1].rolling_30d = Quot(rows[1].total, 1)

C22_Witness ==
  /\ Ran("temporal_trends") /\ arg["temporal_trends"] = "D"
  /\ Len(returned.rows) > 30
  /\ returned.rows[1].total > 0
  /\ returned.rows[Len(returned.rows)].total > 0
  /\ returned.rows[Len(returned.rows)].cumulative
       = returned.rows[1].total + returned.rows[Len(returned.rows)].total
  /\ IsMeanOf(returned.rows[Len(returned.rows)].rolling_7d,
              Len(returned.rows) - 6, Len(returned.rows))
  /\ ~IsMeanOf(returned.rows[Len(returned.rows)].rolling_30d, 1, Len(returned.rows))

----------------------------------------------------------------------------
\* Properties of the stages as functions of their input

\* C23: a stage whose expected column is absent from its input (an age
\* column for add_enrolment_totals, every column of the prefix for
\* add_update_totals, a required column for remove_invalid_records) raises
\* instead of returning a table.
C23_MissingColumnRaises ==
  (/\ mode = "call"
   /\ \/ last = "add_enrolment_totals" /\ ~(AgeCols \subseteq raw.cols)
      \/ last = "add_update_totals" /\ UpdateCols(raw, prefix) = {}
      \/ last = "remove_invalid_records" /\ ~(RequiredCols \subseteq raw.cols))
  => raised

----------------------------------------------------------------------------
\* Properties of detect_anomalies_zscore

\* the value column of df with 0 in the place of a null
ZeroFilled == [i \in 1..Len(df.rows) |-> Count(df.rows[i].cells, ValueCol(df))]

\* Len(xs) times the deviation of xs[i] from the mean of xs
Deviation(xs, i) == Len(xs) * xs[i] - SumUpTo(xs, Len(xs))

\* the sum of the squares of the deviations: Len(xs)^3 times the population
\* variance of xs
SquaredDeviations(xs) ==
  SumUpTo([j \in 1..Len(xs) |-> Deviation(xs, j) * Deviation(xs, j)], Len(xs))

\* C25: detect_anomalies_zscore scores every row of the input (none is
\* dropped) against the mean and the population standard deviation of the
\* column with nulls replaced by 0, and flags a row iff its absolute score
\* strictly exceeds the threshold; the float score differs from the exact
\* one only by rounding.
C25_ZscoreZeroFilled ==
  Ran("detect_anomalies_zscore") =>
    LET t  == arg["detect_anomalies_zscore"]
        xs == ZeroFilled
        n  == Len(xs)
        V  == SquaredDeviations(xs)
        \* |z| compared with t, both squared and multiplied by V * t.den^2
        score(i) == Deviation(xs, i) * Deviation(xs, i) * n * t.den * t.den
        bound    == t.num * t.num * V
    IN /\ Len(returned.rows) = Len(df.rows)
       /\ \A i \in 1..n :
            LET r == returned.rows[i]
            IN /\ r.idx = df.rows[i].idx
               /\ r.zscore.nan <=> V = 0
               /\ r.above => V # 0 /\ t.num >= 0 /\ score(i) = bound /\ ~ExactScores(xs)
               /\ r.is_anomaly <=>
                    /\ V # 0
                    /\ \/ t.num < 0
                       \/ score(i) > bound
                       \/ score(i) = bound /\ r.above

C25_Witness ==
  /\ Ran("detect_anomalies_zscore")
  /\ arg["detect_anomalies_zscore"] = Quot(1, 1)
  /\ Len(df.rows) = 4
  /\ \E i \in 1..4 : IsNull(df.rows[i].cells[ValueCol(df)]) /\ returned.rows[i].is_anomaly
  /\ \E i \in 1..4 : ~IsNull(df.rows[i].cells[ValueCol(df)]) /\ ~returned.rows[i].is_anomaly

\* C30 as stated: with the default threshold 3.0 detect_anomalies_zscore
\* flags no row of a series of at most 10 rows.
C30_NoFlagUpToTenRows ==
  (/\ Ran("detect_anomalies_zscore")
   /\ arg["detect_anomalies_zscore"] = Quot(3, 1)
   /\ Len(df.rows) <= 10)
  => \A i \in 1..Len(returned.rows) : ~returned.rows[i].is_anomaly

\* C30: with the default threshold 3.0 detect_anomalies_zscore flags no row
\* of a series of at most 9 rows; in a series of 10 rows the only rows it
\* can flag are those whose exact score is 3, by a rounding error.
C30_NoFlagUpToNineRows ==
  (/\ Ran("detect_anomalies_zscore")
   /\ arg["detect_anomalies_zscore"] = Quot(3, 1)
   /\ Len(df.rows) <= 10)
  => \A i \in 1..Len(returned.rows) :
       returned.rows[i].is_anomaly =>
         /\ Len(df.rows) = 10
         /\ returned.rows[i].above
         /\ returned.rows[i].zscore.num = 9 * returned.rows[i].zscore.den

C30_Witness ==
  /\ Ran("detect_anomalies_zscore")
  /\ arg["detect_anomalies_zscore"] = Quot(3, 1)
  /\ Len(df.rows) = 9
  /\ returned.rows[9].zscore.num = 8 * returned.rows[9].zscore.den
  /\ ~returned.rows[9].is_anomaly

----------------------------------------------------------------------------
\* Properties of the derived features and of the rows of a pipeline

\* the day of the week of a date of the Gregorian calendar, 0 = Sunday
\* (the month offsets of the perpetual calendar)
WeekdayFromSunday(y, m, d) ==
  LET t  == <<0, 3, 2, 5, 0, 3, 5, 1, 4, 6, 2, 4>>
      yy == IF m < 3 THEN y - 1 ELSE y
  IN (yy + (yy \div 4) - (yy \div 100) + (yy \div 400) + t[m] + d) % 7

\* C26: in a preprocess_* pipeline add_temporal_features does not raise,
\* and every record it returns has non-null features read from its date:
\* year and month are those of the date, quarter is in 1..4 and is the
\* month divided by 3, rounded up, and day_of_week is in 0..6 with
\* 0 = Monday and 6 = Sunday.
C26_TemporalFeatures ==
  (mode \in Pipelines /\ Position("add_temporal_features") # 0) =>
    /\ last = "add_temporal_features" => ~raised
    /\ ~raised =>
         \A i \in 1..Len(df.rows) :
           LET c  == df.rows[i].cells
               dt == c["date"]
           IN /\ dt.t = "date"
              /\ c["year"] = IntC(dt.y)
              /\ c["month"] = IntC(dt.m)
              /\ c["quarter"].t = "int"
              /\ c["quarter"].n \in 1..4
              /\ 3 * (c["quarter"].n - 1) < dt.m /\ dt.m <= 3 * c["quarter"].n
              /\ c["day_of_week"].t = "int"
              /\ c["day_of_week"].n \in 0..6
              /\ (c["day_of_week"].n + 1) % 7 = WeekdayFromSunday(dt.y, dt.m, dt.d)

C26_Witness ==
  /\ Finished /\ Len(df.rows) = 2
  /\ df.rows[1].cells["date"] = DateC(2023, 1, 1)
  /\ df.rows[1].cells["day_of_week"] = IntC(6)
  /\ df.rows[1].cells["quarter"] = IntC(1)
  /\ df.rows[2].cells["date"] = DateC(2024, 7, 15)
  /\ df.rows[2].cells["day_of_week"] = IntC(0)
  /\ df.rows[2].cells["quarter"] = IntC(3)

\* the record o of a pipeline's output is the input record r, cleaned: the
\* columns no stage writes are equal, and date, PIN and state are those of
\* r, parsed, trimmed and normalised
ComesFrom(o, r) ==
  /\ o.cells["district"] = r.cells["district"]
  /\ \A c \in NumCols(mode) : o.cells[c] = r.cells[c]
  /\ o.cells["date"] = ToDatetime(r.cells["date"])
  /\ o.cells["pincode"] = StrC(Strip(AsStr(r.cells["pincode"])))
  /\ o.cells["state"] = NormalizeName(r.cells["state"])

\* C27: the rows a preprocess_* pipeline returns are the cleaned records
\* of a subsequence of its input rows, in the order of the input (no row is
\* added, duplicated or reordered, and there are at most as many as in the
\* input), and their index is 0..n-1.
C27_RowsAreSubsequence ==
  Finished =>
    /\ Len(df.rows) <= Len(raw.rows)
    /\ \A i \in 1..Len(df.rows) : df.rows[i].idx = i - 1
    /\ \E f \in [1..Len(df.rows) -> 1..Len(raw.rows)] :
         /\ \A i, j \in 1..Len(df.rows) : i < j => f[i] < f[j]
         /\ \A i \in 1..Len(df.rows) : ComesFrom(df.rows[i], raw.rows[f[i]])

C27_Witness ==
  /\ Finished
  /\ Len(raw.rows) = 2 /\ Len(df.rows) = 1
  /\ ComesFrom(df.rows[1], raw.rows[2])
  /\ ~ComesFrom(df.rows[1], raw.rows[1])
  /\ raw.rows[2].idx = 1 /\ df.rows[1].idx = 0

----------------------------------------------------------------------------
\* Hotspots against coldspots

\* identify_hotspots at percentile 90 and identify_coldspots at percentile
\* 10 have both been taken of df
DefaultSpots ==
  /\ Done("identify_hotspots") /\ arg["identify_hotspots"] = 90
  /\ Done("identify_coldspots") /\ arg["identify_coldspots"] = 10

\* the index labels of the rows returned as hotspot and as coldspot
InBoth ==
  {hotspots.rows[k].idx : k \in 1..Len(hotspots.rows)}
    \cap {coldspots.rows[k].idx : k \in 1..Len(coldspots.rows)}

\* C28 as stated: no row is returned both by identify_hotspots at
\* percentile 90 and by identify_coldspots at percentile 10 of the same
\* column.
C28_SpotsDisjoint == DefaultSpots => InBoth = {}

\* C28: a row is returned both by identify_hotspots at percentile 90 and by
\* identify_coldspots at percentile 10 of the same column only if the two
\* thresholds are equal, and then its value is that threshold; when the
\* 10th percentile is below the 90th, the two results are disjoint.
C28_SpotsDisjointUnlessThresholdsMeet ==
  DefaultSpots =>
    IF Len(Values) = 0 THEN InBoth = {}
    ELSE /\ Percentile(Values, 10, 100) < Percentile(Values, 90, 100) => InBoth = {}
         /\ \A i \in 1..Len(df.rows) :
              df.rows[i].idx \in InBoth =>
                /\ ~IsNull(df.rows[i].cells[ValueCol(df)])
                /\ Percentile(Values, 10, 100) = Percentile(Values, 90, 100)
                /\ 100 * df.rows[i].cells[ValueCol(df)].n = Percentile(Values, 90, 100)

C28_Witness ==
  /\ DefaultSpots
  /\ Len(Values) >= 3
  /\ Percentile(Values, 10, 100) < Percentile(Values, 90, 100)
  /\ Len(hotspots.rows) >= 1 /\ Len(coldspots.rows) >= 1
  /\ InBoth = {}

----------------------------------------------------------------------------
\* The states that survive normalize_state_names

\* the texts that render a null value, in lower case
NullTexts == {<<"n","a","n">>, <<"n","o","n","e">>, <<"n","a","t">>, <<"<","n","a",">">>}

\* the rows of df whose state is made of digits only
DigitStates ==
  {i \in 1..Len(df.rows) :
     LET c == df.rows[i].cells["state"]
     IN c.t = "str" /\ c.s # <<>> /\ \A k \in 1..Len(c.s) : c.s[k] \in AsciiDigits}

\* the rows of df whose state is the text of a null value
NullTextStates ==
  {i \in 1..Len(df.rows) :
     LET c == df.rows[i].cells["state"]
     IN c.t = "str" /\ LowerStr(c.s) \in NullTexts}

\* C29: after normalize_state_names no surviving row has a state made of
\* digits only, whatever the whitespace around the digits of the raw value,
\* and no surviving row's state is the text that renders a null value.
C29_NoDigitOrNullState ==
  Called("normalize_state_names") => DigitStates = {} /\ NullTextStates = {}

====
